---- MODULE Spec2Model ----
(***************************************************************************)
(* Model of the binary VSS tree parser library                             *)
(* (src/binary/c_parser/cparserlib.c) and its drivers.                     *)
(*                                                                         *)
(* C strings are sequences of character codes; a node handle is the index  *)
(* of the node in the pre-order sequence `tree`, 0 being the null handle.  *)
(* A pointer into a C string is a 1-based index, 0 being NULL.             *)
(***************************************************************************)
EXTENDS Integers, Sequences, FiniteSets, TLC

VARIABLES
    tree,               \* the node_t graph rooted at handle 1 (result of VSSReadTree)
    srcValidate,        \* per node: the validate string of the file the tree was read from
    phase,              \* position of the driver: "tool" | "start" | "idle" | "search" |
                        \* "returned" | "written" | "reread" | "noTree" | "crashed"
    op,                 \* which library entry point is running / has returned
    context,            \* SearchContext_t of the running call
    stack,              \* activation records of traverseNode, top is the last element
    searchData,         \* caller's searchData_t array (entries written so far)
    listFile,           \* tokens written to listFp by the list operations
    isGetLeafNodeList,  \* global flag, cparserlib.c:30
    isGetUuidList,      \* global flag, cparserlib.c:31
    getPathSegmentBuf,  \* static buffer, cparserlib.c:235
    retval,             \* value returned by the last call
    validation,         \* *validation out-parameter of VSSSearchNodes
    call,               \* arguments of the running / last call
    scoped,             \* does the driver pass exclusion lists (noScopeList)
    treeFile,           \* bytes of the file VSSReadTree read and VSSWriteTree writes
    readBack,           \* the node_t graph of a second VSSReadTree, of the written file
    canOpen,            \* does fopen succeed: .read for "r", .write for "w" and "w+"
    toolCalls,          \* arguments of the calls of createBinaryCnode made so far
    other,              \* the thread that is not running: its id, its tree and its locals
    alone,              \* what the search of thread 1 returned in a process of its own
    meta,               \* locals and output of the driver's command 'm' (subtree metadata)
    native              \* the native-format parser: its wildcard queue and its running search

codecVars == <<treeFile, readBack, canOpen, toolCalls, other, alone, meta, native>>

vars == <<tree, srcValidate, phase, op, context, stack, searchData, listFile,
          isGetLeafNodeList, isGetUuidList, getPathSegmentBuf, retval, validation,
          call, scoped, codecVars>>

----------------------------------------------------------------------------
(* Bounds of the model *)
MaxNodes == 3      \* nodes of a generated tree
MaxSegs == 3       \* segments of a generated search path

(* Program constants *)
DOT == 46
STAR == 42
UNKNOWN == 0
SENSOR == 1
ACTUATOR == 2
ATTRIBUTE == 3
BRANCH == 4
AnyDepthMax == 100
CountSegmentsCap == 100
SpecSlots == 20
MAXFOUNDNODES == 1500

----------------------------------------------------------------------------
(* C strings used below *)
sStar == <<STAR>>
sEmpty == <<>>
sVehicle == <<86, 101, 104, 105, 99, 108, 101>>
sSpeed == <<83, 112, 101, 101, 100>>
sCabin == <<67, 97, 98, 105, 110>>
sDoor == <<68, 111, 111, 114>>
sA == <<65>>
sB == <<66>>
sC == <<67>>
sD == <<68>>
sX == <<88>>
sB1 == <<66, 49>>
sB2 == <<66, 50>>
sVehicleStar == sVehicle \o <<DOT>> \o sStar

RECURSIVE JoinDots(_)
JoinDots(segs) ==
    IF Len(segs) = 0 THEN <<>>
    ELSE IF Len(segs) = 1 THEN segs[1]
    ELSE segs[1] \o <<DOT>> \o JoinDots(Tail(segs))

RECURSIVE SeqsUpTo(_, _)
SeqsUpTo(S, n) ==
    IF n = 0 THEN {<<>>}
    ELSE LET shorter == SeqsUpTo(S, n - 1)
         IN shorter \cup {Append(q, x) : q \in {r \in shorter : Len(r) = n - 1}, x \in S}

----------------------------------------------------------------------------
(* libc string functions *)

\* strchr(s + from - 1, c): index of the first c at or after from, 0 if none
StrChr(s, from, c) ==
    LET hits == {i \in from..Len(s) : s[i] = c}
    IN IF hits = {} THEN 0 ELSE CHOOSE i \in hits : \A j \in hits : i <= j

\* strrchr(s, c): index of the last c, 0 if none
StrRChr(s, c) ==
    LET hits == {i \in 1..Len(s) : s[i] = c}
    IN IF hits = {} THEN 0 ELSE CHOOSE i \in hits : \A j \in hits : i >= j

----------------------------------------------------------------------------
(* Tree accessors *)
VSSgetName(t, h) == t[h].name
VSSgetType(t, h) == t[h].type
VSSgetUUID(t, h) == t[h].uuid
VSSgetValidation(t, h) == t[h].validate
VSSgetNumOfChildren(t, h) == t[h].children
VSSgetParent(t, h) == t[h].parent
\* faulty variant: the first child whatever the index
VSSgetChild_First(t, h, childNo) ==
    IF VSSgetNumOfChildren(t, h) > childNo THEN t[h].child[1] ELSE 0

VSSgetChild(t, h, childNo) ==
    IF VSSgetNumOfChildren(t, h) > childNo THEN t[h].child[childNo + 1] ELSE 0

----------------------------------------------------------------------------
(* Path matcher: pure parts of cparserlib.c *)

\* faulty variant: the separator is written at the search root too
pushPathSegment_AlwaysDot(name, ctx) ==
    [ctx EXCEPT !.matchPath = @ \o <<DOT>> \o name]

\* pushPathSegment: strcat of "." (when not at the search root) and the name
pushPathSegment(name, ctx) ==
    [ctx EXCEPT !.matchPath =
        IF ctx.currentDepth > 0 THEN @ \o <<DOT>> \o name ELSE @ \o name]

\* popPathSegment: cut matchPath at its last '.', or empty it
popPathSegment(ctx) ==
    LET delim == StrRChr(ctx.matchPath, DOT)
    IN [ctx EXCEPT !.matchPath = IF delim = 0 THEN <<>> ELSE SubSeq(@, 1, delim - 1)]

incDepth(t, thisNode, ctx) ==
    LET pushed == pushPathSegment(VSSgetName(t, thisNode), ctx)
    IN [pushed EXCEPT !.currentDepth = @ + 1]

\* the for loop of getPathSegment: k times frontDelimiter = strchr(frontDelimiter+1, '.'),
\* 0 as soon as strchr returns NULL
RECURSIVE AdvanceDelimiter(_, _, _)
AdvanceDelimiter(path, front, k) ==
    IF k <= 0 THEN front
    ELSE LET nxt == StrChr(path, front + 1, DOT)
         IN IF nxt = 0 THEN 0 ELSE AdvanceDelimiter(path, nxt, k - 1)

\* getPathSegment: the result is either a string literal ("*" or "") or the static
\* buffer getPathSegmentBuf, which is then overwritten with the segment (isBuf)
getPathSegment(offset, ctx) ==
    LET path == ctx.searchPath
        front == AdvanceDelimiter(path, 1, ctx.currentDepth + offset - 1)
    IN IF front = 0
       THEN [isBuf |-> FALSE,
             str |-> IF path[Len(path)] = STAR /\ ctx.currentDepth < ctx.maxDepth
                     THEN sStar ELSE sEmpty]
       ELSE LET e0 == StrChr(path, front + 1, DOT)
                endDelimiter == IF e0 = 0 THEN Len(path) + 1 ELSE e0
                frontDelimiter == IF path[front] = DOT THEN front + 1 ELSE front
            IN [isBuf |-> TRUE, str |-> SubSeq(path, frontDelimiter, endDelimiter - 1)]

\* the static buffer after a call of getPathSegment that returned seg
BufAfter(buf, seg) == IF seg.isBuf THEN seg.str ELSE buf

\* the string a char* returned by getPathSegment points to, read later
Deref(ptr, buf) == IF ptr.isBuf THEN buf ELSE ptr.str

RECURSIVE CountDelims(_, _, _)
CountDelims(path, delim, i) ==
    IF i >= CountSegmentsCap \/ delim = 0 THEN i
    ELSE CountDelims(path, StrChr(path, delim + 1, DOT), i + 1)

countSegments(path) ==
    IF Len(path) = 0 THEN 0
    ELSE CountDelims(path, StrChr(path, 1, DOT), 0) + 1

compareNodeName(nodeName, pathName) ==
    nodeName = pathName \/ pathName = sStar

\* faulty variant: the exclusion list is ignored
isEndOfScope_Never(ctx) == FALSE

isEndOfScope(ctx) ==
    /\ ctx.listSize # 0
    /\ \E i \in 1..ctx.listSize : ctx.matchPath = ctx.noScopeList[i]

\* faulty variant: leafNodesOnly is ignored: every matching node is recorded
isRecorded_All(t, thisNode, ctx) == TRUE

\* faulty variant: leafNodesOnly is taken to be set: branches are never recorded
isRecorded_LeavesOnly(t, thisNode, ctx) ==
    VSSgetType(t, thisNode) # BRANCH

\* cparserlib.c:305, the condition under which a matching node is recorded
isRecorded(t, thisNode, ctx) ==
    VSSgetType(t, thisNode) # BRANCH \/ ctx.leafNodesOnly = FALSE

\* cparserlib.c:337, *done
isDone(t, thisNode, ctx) ==
    \/ VSSgetNumOfChildren(t, thisNode) = 0
    \/ ctx.currentDepth = ctx.maxDepth
    \/ isEndOfScope(ctx)

\* cparserlib.c:342, the value saveMatchingNode returns
speculationResult(t, thisNode, ctx) ==
    IF /\ ctx.speculationIndex >= 0
       /\ \/ /\ VSSgetNumOfChildren(t, thisNode) = 0
             /\ ctx.currentDepth >= countSegments(ctx.searchPath)
          \/ ctx.currentDepth = ctx.maxDepth
    THEN 1 ELSE 0

\* cparserlib.c:302, accumulation of maxValidation
accumulateValidation(newValidation, currentMaxValidation) ==
    IF newValidation > currentMaxValidation THEN newValidation ELSE currentMaxValidation

\* text written to listFp for one match, cparserlib.c:310-330
listEntry(leafMode, first, path, uuid) ==
    IF leafMode
    THEN (IF first THEN <<34>> ELSE <<44, 32, 34>>) \o path \o <<34>>
    ELSE (IF first THEN <<123, 34>> ELSE <<44, 32, 123, 34>>) \o path
         \o <<34, 44, 32, 34>> \o uuid \o <<34, 125>>

\* searchData[index] = entry  (index is 0-based)
StoreEntry(sd, index, entry) ==
    IF index + 1 <= Len(sd) THEN [sd EXCEPT ![index + 1] = entry]
    ELSE Append(sd, entry)

\* saveMatchingNode: new context, searchData, listFile, *done and the return value
saveMatchingNode(t, thisNode, ctx, sd, lf, leafList, uuidList) ==
    LET c1 == IF getPathSegment(0, ctx).str = sStar
              THEN [ctx EXCEPT !.speculationIndex = @ + 1] ELSE ctx
        c2 == [c1 EXCEPT !.maxValidation =
                  accumulateValidation(VSSgetValidation(t, thisNode), @)]
        rec == isRecorded(t, thisNode, c2)
        toArray == rec /\ leafList = FALSE /\ uuidList = FALSE
        toFile == rec /\ ~toArray
        c3 == IF rec
              THEN [c2 EXCEPT !.numOfMatches = @ + 1,
                              !.speculativeMatches =
                                  IF c2.speculationIndex >= 0
                                  THEN [@ EXCEPT ![c2.speculationIndex] = @ + 1]
                                  ELSE @]
              ELSE c2
    IN [context |-> c3,
        searchData |-> IF toArray
                       THEN StoreEntry(sd, c2.numOfMatches,
                                [responsePaths |-> c2.matchPath,
                                 foundNodeHandles |-> thisNode])
                       ELSE sd,
        listFile |-> IF toFile
                     THEN lf \o listEntry(leafList, c2.numOfMatches = 0,
                                          c2.matchPath, VSSgetUUID(t, thisNode))
                     ELSE lf,
        done |-> isDone(t, thisNode, c3),
        ret |-> speculationResult(t, thisNode, c3)]

\* faulty variant: a failed speculation is never reversed
retracts_Never(speculationSucceded, ctx) == FALSE

\* cparserlib.c:353-358, does decDepth remove a saved match
retracts(speculationSucceded, ctx) ==
    /\ ctx.speculationIndex >= 0
    /\ ctx.speculativeMatches[ctx.speculationIndex] > 0
    /\ speculationSucceded = 0

decDepth(speculationSucceded, ctx) ==
    LET c1 == IF retracts(speculationSucceded, ctx)
              THEN [ctx EXCEPT !.numOfMatches = @ - 1,
                               !.speculativeMatches[ctx.speculationIndex] = @ - 1]
              ELSE ctx
        c2 == IF getPathSegment(0, c1).str = sStar
              THEN [c1 EXCEPT !.speculationIndex = @ - 1] ELSE c1
        c3 == popPathSegment(c2)
    IN [c3 EXCEPT !.currentDepth = @ - 1]

\* the fields of the context that do not depend on the arguments
FreshContext(searchPath, rootNode, maxFound, maxDepth, leafNodesOnly, listSize, noScopeList) ==
    [searchPath |-> searchPath,
     rootNode |-> rootNode,
     maxFound |-> maxFound,
     maxDepth |-> maxDepth,
     leafNodesOnly |-> leafNodesOnly,
     listSize |-> listSize,
     noScopeList |-> IF listSize > 0 THEN noScopeList ELSE <<>>,
     maxValidation |-> 0,
     currentDepth |-> 0,
     matchPath |-> <<>>,
     numOfMatches |-> 0,
     speculationIndex |-> -1,
     speculativeMatches |-> [i \in 0..(SpecSlots - 1) |-> 0]]

\* faulty variant: anyDepth is ignored: maxDepth is always the segment count
initContext_NoAnyDepth(searchPath, rootNode, maxFound, anyDepth, leafNodesOnly, listSize, noScopeList) ==
    FreshContext(searchPath, rootNode, maxFound, countSegments(searchPath), leafNodesOnly,
                 listSize, noScopeList)

\* initContext / initContext_LNL: the fields both set
initContext(searchPath, rootNode, maxFound, anyDepth, leafNodesOnly, listSize, noScopeList) ==
    FreshContext(searchPath, rootNode, maxFound,
                 IF anyDepth THEN AnyDepthMax ELSE countSegments(searchPath),
                 leafNodesOnly, listSize, noScopeList)

----------------------------------------------------------------------------
(* Trees the driver may have loaded *)

sWriteOnly == <<119, 114, 105, 116, 101, 45, 111, 110, 108, 121>>
sReadWrite == <<114, 101, 97, 100, 45, 119, 114, 105, 116, 101>>
sConsent == <<43, 99, 111, 110, 115, 101, 110, 116>>

\* validateToUint8: strcmp against the two strings it knows
validateToUint8(validate) ==
    IF validate = sWriteOnly THEN 1
    ELSE IF validate = sReadWrite THEN 2
    ELSE 0

RECURSIVE AncSelf(_, _)
AncSelf(par, i) == {i} \cup (IF par[i] = 0 THEN {} ELSE AncSelf(par, par[i]))

\* parent vectors of the ordered trees with n nodes numbered in pre-order
ParentVecs(n) ==
    {par \in [1..n -> 0..(n - 1)] :
        /\ par[1] = 0
        /\ \A i \in 2..n : par[i] \in AncSelf(par, i - 1)}

RECURSIVE SortedSeq(_)
SortedSeq(S) ==
    IF S = {} THEN <<>>
    ELSE LET m == CHOOSE x \in S : \A y \in S : x <= y
         IN <<m>> \o SortedSeq(S \ {m})

KidsOf(par, i) == SortedSeq({j \in DOMAIN par : par[j] = i})

\* the node_t graph traverseAndReadNode builds from a file whose nodes, in pre-order,
\* have parents par, names nm, types kd and validate strings vs
MkTree(par, nm, kd, vs) ==
    [i \in DOMAIN par |->
        [name |-> nm[i],
         type |-> kd[i],
         uuid |-> <<117, 48 + i>>,
         validate |-> validateToUint8(vs[i]),
         children |-> Len(KidsOf(par, i)),
         child |-> KidsOf(par, i),
         parent |-> par[i]]]

File(par, nm, kd, vs) == [par |-> par, nm |-> nm, kd |-> kd, vs |-> vs]

TreeNames == {sVehicle, sA}
LeafOrBranch == {SENSOR, BRANCH}

\* sibling names are unique; a node with children is a branch
WellFormed(par, nm, kd) ==
    /\ \A i, j \in DOMAIN par : (i < j /\ par[i] = par[j]) => nm[i] # nm[j]
    /\ \A i \in DOMAIN par : (\E j \in DOMAIN par : par[j] = i) => kd[i] = BRANCH

NoValidate(n) == [i \in 1..n |-> sEmpty]

GenFiles ==
    UNION {
        {File(x[1], x[2], x[3], NoValidate(n)) :
            x \in {y \in ParentVecs(n) \X [1..n -> TreeNames] \X [1..n -> LeafOrBranch] :
                      WellFormed(y[1], y[2], y[3])}}
        : n \in 1..MaxNodes}

\* the trees of the specification's scenarios
FileABCD ==
    File(<<0, 1, 2, 2>>, <<sA, sB, sC, sD>>, <<BRANCH, BRANCH, SENSOR, SENSOR>>,
         NoValidate(4))
FileB1B2 ==
    File(<<0, 1, 2, 1>>, <<sA, sB1, sX, sB2>>, <<BRANCH, BRANCH, SENSOR, BRANCH>>,
         NoValidate(4))
FileB2B1 ==
    File(<<0, 1, 1, 3>>, <<sA, sB2, sB1, sX>>, <<BRANCH, BRANCH, BRANCH, SENSOR>>,
         NoValidate(4))
FileVehicle ==
    File(<<0, 1, 1, 3>>, <<sVehicle, sSpeed, sCabin, sDoor>>,
         <<BRANCH, SENSOR, BRANCH, ACTUATOR>>, NoValidate(4))

TreeOf(f) == MkTree(f.par, f.nm, f.kd, f.vs)
TreeABCD == TreeOf(FileABCD)
TreeB1B2 == TreeOf(FileB1B2)
TreeB2B1 == TreeOf(FileB2B1)
TreeVehicle == TreeOf(FileVehicle)

ScenarioFiles == {FileABCD, FileB1B2, FileB2B1, FileVehicle}

SearchFiles == GenFiles \cup ScenarioFiles

\* validate strings a file may carry
ValidateStrings ==
    {sEmpty, sWriteOnly, sReadWrite, sWriteOnly \o sConsent, sReadWrite \o sConsent}

\* files of a branch with one leaf, every combination of validate strings
ValFiles ==
    {File(<<0, 1>>, <<sA, sB>>, <<BRANCH, kd>>, vs) :
        kd \in LeafOrBranch, vs \in [1..2 -> ValidateStrings]}

\* search paths the driver may pass
PathSegs == TreeNames \cup {sStar}
GenPaths == {JoinDots(q) : q \in SeqsUpTo(PathSegs, MaxSegs) \ {<<>>}}
ScenarioPaths ==
    {JoinDots(<<sA, sStar, sX>>), JoinDots(<<sVehicle, sCabin, sStar>>)}
SearchPaths == GenPaths \cup ScenarioPaths

\* dotted path of node h from the root
RECURSIVE PathOf(_, _)
PathOf(t, h) ==
    IF t[h].parent = 0 THEN t[h].name
    ELSE PathOf(t, t[h].parent) \o <<DOT>> \o t[h].name

\* exclusion lists the driver may pass: none, or the path of one node that has
\* children (at a node without children the descent ends with or without a list)
NoScopeLists(t, withList) ==
    IF withList THEN {<<PathOf(t, h)>> : h \in {k \in DOMAIN t : t[k].children > 0}}
    ELSE {<<>>}

----------------------------------------------------------------------------
(* Codec: the byte format of a node and its conversions (cparserlib.c:75-211, 366-633) *)

\* the type names of stringToNodeType / nodeTypeToString, indexed by nodeTypes_t
NodeTypeNames ==
    <<<<115, 101, 110, 115, 111, 114>>,
      <<97, 99, 116, 117, 97, 116, 111, 114>>,
      <<97, 116, 116, 114, 105, 98, 117, 116, 101>>,
      <<98, 114, 97, 110, 99, 104>>>>

\* the datatype names in the order stringToDataType compares them; a datatype is
\* numbered by its place in this order (INT8 = 1, ..., STRINGARRAY = 20)
DataTypeNames ==
    <<<<105, 110, 116, 56>>,
      <<117, 105, 110, 116, 56>>,
      <<105, 110, 116, 49, 54>>,
      <<117, 105, 110, 116, 49, 54>>,
      <<105, 110, 116, 51, 50>>,
      <<117, 105, 110, 116, 51, 50>>,
      <<100, 111, 117, 98, 108, 101>>,
      <<102, 108, 111, 97, 116>>,
      <<98, 111, 111, 108, 101, 97, 110>>,
      <<115, 116, 114, 105, 110, 103>>,
      <<105, 110, 116, 56, 91, 93>>,
      <<117, 105, 110, 116, 56, 91, 93>>,
      <<105, 110, 116, 49, 54, 91, 93>>,
      <<117, 105, 110, 116, 49, 54, 91, 93>>,
      <<105, 110, 116, 51, 50, 91, 93>>,
      <<117, 105, 110, 116, 51, 50, 91, 93>>,
      <<100, 111, 117, 98, 108, 101, 91, 93>>,
      <<102, 108, 111, 97, 116, 91, 93>>,
      <<98, 111, 111, 108, 101, 97, 110, 91, 93>>,
      <<115, 116, 114, 105, 110, 103, 91, 93>>>>

\* faulty variant: a name that is not known is taken for "sensor"
stringToNodeType_Sensor(type) ==
    IF \E i \in DOMAIN NodeTypeNames : NodeTypeNames[i] = type
    THEN CHOOSE i \in DOMAIN NodeTypeNames : NodeTypeNames[i] = type
    ELSE SENSOR

stringToNodeType(type) ==
    IF \E i \in DOMAIN NodeTypeNames : NodeTypeNames[i] = type
    THEN CHOOSE i \in DOMAIN NodeTypeNames : NodeTypeNames[i] = type
    ELSE UNKNOWN

nodeTypeToString(type) ==
    IF type \in DOMAIN NodeTypeNames THEN NodeTypeNames[type] ELSE sEmpty

stringToDataType(datatype) ==
    IF \E i \in DOMAIN DataTypeNames : DataTypeNames[i] = datatype
    THEN CHOOSE i \in DOMAIN DataTypeNames : DataTypeNames[i] = datatype
    ELSE UNKNOWN

dataTypeToString(datatype) ==
    IF datatype \in DOMAIN DataTypeNames THEN DataTypeNames[datatype] ELSE sEmpty

\* faulty variant: no validation level is written
validateToString_None(validate) == sEmpty

validateToString(validate) ==
    IF validate = 1 THEN sWriteOnly
    ELSE IF validate = 2 THEN sReadWrite
    ELSE sEmpty

\* hexToInt: digits up to '9' count from '0', every other character from 'A'
hexToInt(hexDigit) ==
    IF hexDigit <= 57 THEN hexDigit - 48 ELSE hexDigit - 65 + 10

\* enumLen of the element whose two hex digits start at index (0-based) of enumStr
HexLenAt(enumStr, index) ==
    hexToInt(enumStr[index + 1]) * 16 + hexToInt(enumStr[index + 2])

RECURSIVE CountFrom(_, _, _)
CountFrom(enumStr, index, enums) ==
    IF index < Len(enumStr)
    THEN CountFrom(enumStr, index + HexLenAt(enumStr, index) + 2, enums + 1)
    ELSE enums

countEnumElements(enumStr) == CountFrom(enumStr, 0, 0)

\* size of enum_t, the buffer of one element of an allowed list
EnumElementLen == 64

\* countEnumElements and extractEnumElement stay inside enumStr and inside enum_t:
\* from index on, every element has its two digits and as many bytes as they tell,
\* fewer than EnumElementLen
RECURSIVE EnumInBounds(_, _)
EnumInBounds(enumStr, index) ==
    \/ index >= Len(enumStr)
    \/ /\ index + 2 <= Len(enumStr)
       /\ HexLenAt(enumStr, index) \in 0..(EnumElementLen - 1)
       /\ index + 2 + HexLenAt(enumStr, index) <= Len(enumStr)
       /\ EnumInBounds(enumStr, index + 2 + HexLenAt(enumStr, index))

\* faulty variant: the digits above 9 are written in lower case
hexDigit_Lower(value) == IF value < 10 THEN value + 48 ELSE value - 10 + 97

hexDigit(value) == IF value < 10 THEN value + 48 ELSE value - 10 + 65

\* intToHex; <<>> stands for the NULL it returns above 255
intToHex(intVal) ==
    IF intVal > 255 THEN <<>> ELSE <<hexDigit(intVal \div 16), hexDigit(intVal % 16)>>

\* bufIndex at which element elemIndex of enumBuf starts (its two hex digits)
RECURSIVE ElementStart(_, _, _)
ElementStart(enumBuf, elemIndex, bufIndex) ==
    IF elemIndex = 0 THEN bufIndex
    ELSE ElementStart(enumBuf, elemIndex - 1, bufIndex + HexLenAt(enumBuf, bufIndex) + 2)

extractEnumElement(enumBuf, elemIndex) ==
    LET bufIndex == ElementStart(enumBuf, elemIndex, 0)
        enumLen == HexLenAt(enumBuf, bufIndex)
        enumstart == bufIndex + 2
    IN SubSeq(enumBuf, enumstart + 1, enumstart + enumLen)

\* size of the local array populateNode reads the validate string into
ValidateBufLen == 50

\* the element of a set of one element (binds a value that is computed once)
TheOne(S) == CHOOSE x \in S : TRUE

\* one fread of a length byte followed by a fread of that many bytes. The results of
\* fread are ignored: at the end of the file the length byte keeps the content it
\* had (uninit), and a string cut short by the end of the file keeps the bytes that
\* were read, followed by the content the buffer had (a NUL ends the string); short
\* tells that it happened
ReadField(bytes, pos, uninit) ==
    LET len == IF pos <= Len(bytes) THEN bytes[pos] ELSE uninit
        last == IF pos + len <= Len(bytes) THEN pos + len ELSE Len(bytes)
        got == IF pos < last THEN SubSeq(bytes, pos + 1, last) ELSE <<>>
    IN [len |-> len,
        str |-> got \o [i \in 1..(IF uninit = 0 THEN 0 ELSE len - Len(got)) |-> uninit],
        next |-> IF pos > Len(bytes) THEN pos ELSE last + 1,
        short |-> pos + len > Len(bytes)]

\* populateNode reading at pos; uninit is the value found in the malloc'ed node_t and
\* in the locals where populateNode assigns nothing (datatype when dataTypeLen = 0,
\* every length and buffer after the end of the file).
\* overrun: the validate string does not fit validate[50] with its terminator.
\* wild: lengths or an allowed-list block are uninitialised content, or the
\* allowed-list block makes countEnumElements and extractEnumElement leave their
\* buffers; what follows is not tracked (the caller ends abnormally)
populateNode(bytes, pos, uninit) ==
    LET name == ReadField(bytes, pos, uninit)
        type == ReadField(bytes, name.next, uninit)
        uuid == ReadField(bytes, type.next, uninit)
        descr == ReadField(bytes, uuid.next, uninit)
        dataType == ReadField(bytes, descr.next, uninit)
        min == ReadField(bytes, dataType.next, uninit)
        max == ReadField(bytes, min.next, uninit)
        unit == ReadField(bytes, max.next, uninit)
        enum == ReadField(bytes, unit.next, uninit)
        default == ReadField(bytes, enum.next, uninit)
        validate == ReadField(bytes, default.next, uninit)
        short == validate.next > Len(bytes)
        wild == \/ short /\ (uninit # 0 \/ (enum.short /\ enum.len > 0))
                \/ enum.len > 0 /\ ~EnumInBounds(enum.str, 0)
        enums == IF enum.len > 0 /\ ~wild THEN countEnumElements(enum.str) % 256 ELSE 0
    IN [node |->
           [name |-> name.str,
            type |-> stringToNodeType(type.str),
            uuid |-> uuid.str,
            description |-> descr.str,
            datatype |-> IF dataType.len > 0
                         THEN stringToDataType(dataType.str) % 256 ELSE uninit,
            min |-> min.str,
            max |-> max.str,
            unit |-> unit.str,
            enums |-> enums,
            enumDef |-> [i \in 1..enums |-> extractEnumElement(enum.str, i - 1)],
            defaultEnum |-> default.str,
            validate |-> IF validate.len > 0 THEN validateToUint8(validate.str) ELSE 0,
            children |-> IF short THEN uninit ELSE bytes[validate.next],
            child |-> <<>>,
            parent |-> 0],
        pos |-> IF short THEN Len(bytes) + 1 ELSE validate.next + 1,
        short |-> short,
        overrun |-> validate.len >= ValidateBufLen,
        wild |-> wild]

\* the content the k-th node_t allocated has before populateNode: the one chosen for
\* it, the one chosen for the last when more nodes are allocated than were chosen for
UninitOf(uninit, k) == uninit[IF k \in DOMAIN uninit THEN k ELSE Len(uninit)]

RECURSIVE traverseAndReadNode(_, _, _, _, _)
RECURSIVE ReadChildren(_, _, _, _, _)
\* traverseAndReadNode: nodes are the nodes read so far, in the order they are read;
\* uninit[k] is the uninitialised content of the k-th node_t allocated. The result
\* also tells whether a read fell short of the file (short), whether validate[50]
\* was overrun (overrun) and whether the content became untracked (wild)
traverseAndReadNode(bytes, pos, parentNode, nodes, uninit) ==
    LET thisNode == Len(nodes) + 1
        Read(p) == [nodes |-> Append(nodes, [p.node EXCEPT !.parent = parentNode]),
                    pos |-> p.pos, short |-> p.short, overrun |-> p.overrun,
                    wild |-> p.wild]
    IN TheOne({IF read.wild THEN read ELSE ReadChildren(bytes, thisNode, read, 0, uninit) :
                  read \in {Read(populateNode(bytes, pos, UninitOf(uninit, thisNode)))}})

\* the loop over childNo in traverseAndReadNode; read is what was read so far
ReadChildren(bytes, thisNode, read, childNo, uninit) ==
    IF read.wild \/ childNo >= read.nodes[thisNode].children THEN read
    ELSE LET Child(r) == [nodes |-> [r.nodes EXCEPT
                                        ![thisNode].child = Append(@, Len(read.nodes) + 1)],
                          pos |-> r.pos,
                          short |-> read.short \/ r.short,
                          overrun |-> read.overrun \/ r.overrun,
                          wild |-> r.wild]
         IN TheOne({ReadChildren(bytes, thisNode, next, childNo + 1, uninit) :
                       next \in {Child(traverseAndReadNode(bytes, read.pos, thisNode,
                                                           read.nodes, uninit))}})

\* fwrite of a one-byte length and, when it is not 0, of the string
WriteField(len, str) == <<len % 256>> \o (IF len > 0 THEN SubSeq(str, 1, len) ELSE <<>>)

calculatEnumStrLen(enums, enumDef) ==
    LET RECURSIVE Sum(_)
        Sum(i) == IF i >= enums THEN 0 ELSE Len(enumDef[i + 1]) + 2 + Sum(i + 1)
    IN Sum(0)

enumWrite(theEnum) == intToHex(Len(theEnum)) \o theEnum

RECURSIVE EnumsWritten(_, _)
EnumsWritten(node, i) ==
    IF i >= node.enums THEN <<>>
    ELSE enumWrite(node.enumDef[i + 1]) \o EnumsWritten(node, i + 1)

\* writeNode: the bytes it appends to the file; only the low byte of the int
\* enumStrLen and validateLen is written
writeNode(node) ==
    LET nodeType == nodeTypeToString(node.type)
        dataType == dataTypeToString(node.datatype)
        validate == validateToString(node.validate)
    IN WriteField(Len(node.name), node.name)
       \o WriteField(Len(nodeType), nodeType)
       \o WriteField(Len(node.uuid), node.uuid)
       \o WriteField(Len(node.description), node.description)
       \o WriteField(Len(dataType), dataType)
       \o WriteField(Len(node.min), node.min)
       \o WriteField(Len(node.max), node.max)
       \o WriteField(Len(node.unit), node.unit)
       \o (IF node.enums > 0
           THEN <<calculatEnumStrLen(node.enums, node.enumDef) % 256>>
                \o EnumsWritten(node, 0)
           ELSE <<0>>)
       \o WriteField(Len(node.defaultEnum), node.defaultEnum)
       \o WriteField(Len(validate), validate)
       \o <<node.children>>

RECURSIVE traverseAndWriteNode(_, _)
RECURSIVE WriteChildren(_, _, _)
traverseAndWriteNode(t, node) == writeNode(t[node]) \o WriteChildren(t, node, 0)

WriteChildren(t, node, childNo) ==
    IF childNo >= t[node].children THEN <<>>
    ELSE traverseAndWriteNode(t, t[node].child[childNo + 1])
         \o WriteChildren(t, node, childNo + 1)

VSSgetDatatype(t, h) == IF VSSgetType(t, h) # BRANCH THEN t[h].datatype ELSE -1

----------------------------------------------------------------------------
(* Files the tree may have been read from, for the codec *)

sSensor == <<115, 101, 110, 115, 111, 114>>
sActuator == <<97, 99, 116, 117, 97, 116, 111, 114>>
sAttribute == <<97, 116, 116, 114, 105, 98, 117, 116, 101>>
sBranch == <<98, 114, 97, 110, 99, 104>>
sFloat == <<102, 108, 111, 97, 116>>
sString == <<115, 116, 114, 105, 110, 103>>
sUint8 == <<117, 105, 110, 116, 56>>
sInt64 == <<105, 110, 116, 54, 52>>
sDescr == <<100>>
sZero == <<48>>
sNine == <<57>>
sKm == <<107, 109>>
sEnumABC == <<48, 49, 97, 48, 50, 98, 98, 48, 51, 99, 99, 99>>
sLowerA == <<97>>
sUuid == <<117, 49>>
sXyz == <<120, 121, 122>>
\* a string of n bytes
Filler(n) == [i \in 1..n |-> 120]

\* the bytes of one node of a file, each field a length byte and its content
FileNode(name, type, uuid, descr, dataType, min, max, unit, enum, default, validate, children) ==
    WriteField(Len(name), name) \o WriteField(Len(type), type) \o WriteField(Len(uuid), uuid)
    \o WriteField(Len(descr), descr) \o WriteField(Len(dataType), dataType)
    \o WriteField(Len(min), min) \o WriteField(Len(max), max) \o WriteField(Len(unit), unit)
    \o WriteField(Len(enum), enum) \o WriteField(Len(default), default)
    \o WriteField(Len(validate), validate) \o <<children>>

FileBranch(name, children) ==
    FileNode(name, sBranch, sUuid, sDescr, sEmpty, sEmpty, sEmpty, sEmpty, sEmpty, sEmpty,
             sEmpty, children)

\* leaves: no optional field; an allowed list, a default and a validation; limits and
\* a unit; a datatype this parser does not know; no datatype at all
FileLeaves(name) ==
    {FileNode(name, sSensor, sUuid, sEmpty, sFloat, sEmpty, sEmpty, sEmpty, sEmpty, sEmpty,
              sEmpty, 0),
     FileNode(name, sActuator, sUuid, sDescr, sString, sEmpty, sEmpty, sEmpty, sEnumABC,
              sLowerA, sWriteOnly, 0),
     FileNode(name, sAttribute, sUuid, sDescr, sUint8, sZero, sNine, sKm, sEmpty, sEmpty,
              sReadWrite, 0),
     FileNode(name, sSensor, sUuid, sDescr, sInt64, sEmpty, sEmpty, sEmpty, sEmpty, sEmpty,
              sEmpty, 0),
     FileNode(name, sSensor, sUuid, sDescr, sEmpty, sEmpty, sEmpty, sEmpty, sEmpty, sEmpty,
              sEmpty, 0)}

\* a leaf; a branch of one leaf; a branch of two leaves; a branch in a branch
CodecFiles ==
    FileLeaves(sSpeed)
    \cup {FileBranch(sVehicle, 1) \o l : l \in FileLeaves(sSpeed)}
    \cup {FileBranch(sVehicle, 2) \o l1 \o l2 :
             l1 \in FileLeaves(sSpeed), l2 \in FileLeaves(sDoor)}
    \cup {FileBranch(sVehicle, 1) \o FileBranch(sCabin, 1) \o l : l \in FileLeaves(sDoor)}

\* what a fresh node_t may hold where populateNode assigns nothing: UNKNOWN, a
\* datatype, a value that is no datatype
UninitValues == {UNKNOWN, Len(DataTypeNames), 200}
Uninits == [1..3 -> UninitValues]

----------------------------------------------------------------------------
(* State machine *)

NoContext == initContext(sStar, 0, 0, FALSE, FALSE, 0, <<>>)
NoCall == [searchPath |-> sStar, anyDepth |-> FALSE, leafNodesOnly |-> FALSE,
           noScopeList |-> <<>>]

\* a process with one thread
NoOther == [id |-> 0]
NoAlone == [set |-> FALSE]

\* the driver is not in its command 'm'
NoMeta == [stage |-> "none"]

\* the native-format parser has not been called: its queue is empty
NoNative == [stage |-> "none", trailingWildCardQue |-> <<>>, trailingWildCardQueLen |-> 0]

Frame(node) ==
    [node |-> node, pc |-> "enter", matched |-> FALSE, done |-> FALSE,
     speculationSucceded |-> 0, i |-> 0,
     childPathName |-> [isBuf |-> FALSE, str |-> sEmpty]]

\* the driver before its first command
Idle ==
    /\ phase = "idle"
    /\ op = "none"
    /\ context = NoContext
    /\ stack = <<>>
    /\ searchData = <<>>
    /\ listFile = <<>>
    /\ isGetLeafNodeList = FALSE
    /\ isGetUuidList = FALSE
    /\ getPathSegmentBuf = <<>>
    /\ retval = 0
    /\ validation = 0
    /\ call = NoCall
    /\ readBack = <<>>
    /\ toolCalls = <<>>
    /\ other = NoOther
    /\ alone = NoAlone
    /\ meta = NoMeta
    /\ native = NoNative

InitWith(files, withList) ==
    /\ \E f \in files :
        /\ tree = MkTree(f.par, f.nm, f.kd, f.vs)
        /\ srcValidate = f.vs
    /\ scoped = withList
    /\ treeFile = <<>>
    /\ canOpen = [read |-> TRUE, write |-> TRUE]
    /\ Idle

Init == InitWith(SearchFiles, FALSE)
InitScope == InitWith(SearchFiles, TRUE)
InitVal == InitWith(ValFiles, FALSE)

\* the tree is the result of VSSReadTree on a file with all the fields of its nodes
InitCodec ==
    /\ treeFile \in CodecFiles
    /\ \E uninit \in Uninits : tree = traverseAndReadNode(treeFile, 1, 0, <<>>, uninit).nodes
    /\ srcValidate = <<>>
    /\ scoped = FALSE
    /\ canOpen = [read |-> TRUE, write |-> TRUE]
    /\ Idle

\* VSSSearchNodes up to the call of traverseNode(rootNode, context)
VSSSearchNodes ==
    /\ phase = "idle"
    /\ \E searchPath \in SearchPaths, anyDepth \in BOOLEAN, leafNodesOnly \in BOOLEAN,
          noScopeList \in NoScopeLists(tree, scoped) :
        /\ context' = initContext(searchPath, 1, MAXFOUNDNODES, anyDepth, leafNodesOnly,
                                  Len(noScopeList), noScopeList)
        /\ call' = [searchPath |-> searchPath, anyDepth |-> anyDepth,
                    leafNodesOnly |-> leafNodesOnly, noScopeList |-> noScopeList]
    /\ isGetLeafNodeList' = FALSE
    /\ isGetUuidList' = FALSE
    /\ op' = "VSSSearchNodes"
    /\ phase' = "search"
    /\ stack' = <<Frame(1)>>
    /\ searchData' = <<>>
    /\ listFile' = <<>>
    /\ UNCHANGED <<tree, srcValidate, getPathSegmentBuf, retval, validation, scoped, codecVars>>

sLeafpaths == <<123, 34, 108, 101, 97, 102, 112, 97, 116, 104, 115, 34, 58, 91>>
sLeafuuids == <<123, 34, 108, 101, 97, 102, 117, 117, 105, 100, 115, 34, 58, 91>>
sListEnd == <<93, 125>>

\* VSSGetLeafNodesList up to the call of traverseNode
VSSGetLeafNodesList ==
    /\ phase = "idle"
    /\ canOpen.write
    /\ isGetLeafNodeList' = TRUE
    /\ listFile' = sLeafpaths
    /\ context' = initContext(sVehicleStar, 1, 0, TRUE, TRUE, 0, <<>>)
    /\ call' = [searchPath |-> sVehicleStar, anyDepth |-> TRUE, leafNodesOnly |-> TRUE,
                noScopeList |-> <<>>]
    /\ op' = "VSSGetLeafNodesList"
    /\ phase' = "search"
    /\ stack' = <<Frame(1)>>
    /\ searchData' = <<>>
    /\ UNCHANGED <<tree, srcValidate, isGetUuidList, getPathSegmentBuf, retval, validation,
                   scoped, codecVars>>

\* VSSGetUuidList up to the call of traverseNode
VSSGetUuidList ==
    /\ phase = "idle"
    /\ canOpen.write
    /\ isGetUuidList' = TRUE
    /\ listFile' = sLeafuuids
    /\ context' = initContext(sVehicleStar, 1, 0, TRUE, TRUE, 0, <<>>)
    /\ call' = [searchPath |-> sVehicleStar, anyDepth |-> TRUE, leafNodesOnly |-> TRUE,
                noScopeList |-> <<>>]
    /\ op' = "VSSGetUuidList"
    /\ phase' = "search"
    /\ stack' = <<Frame(1)>>
    /\ searchData' = <<>>
    /\ UNCHANGED <<tree, srcValidate, isGetLeafNodeList, getPathSegmentBuf, retval,
                   validation, scoped, codecVars>>

Top == stack[Len(stack)]
SetTop(st, f) == [st EXCEPT ![Len(st)] = f]

\* traverseNode from its entry to the loop over the children (cparserlib.c:636-645)
traverseNodeEnter ==
    /\ phase = "search"
    /\ Top.pc = "enter"
    /\ LET thisNode == Top.node
           c1 == incDepth(tree, thisNode, context)
           seg == getPathSegment(0, c1)
           buf1 == BufAfter(getPathSegmentBuf, seg)
       IN IF compareNodeName(VSSgetName(tree, thisNode), seg.str)
          THEN LET saved == saveMatchingNode(tree, thisNode, c1, searchData, listFile,
                                             isGetLeafNodeList, isGetUuidList)
                   childSeg == getPathSegment(1, saved.context)
               IN /\ context' = saved.context
                  /\ searchData' = saved.searchData
                  /\ listFile' = saved.listFile
                  /\ IF saved.done
                     THEN /\ stack' = SetTop(stack, [Top EXCEPT
                                          !.pc = "leave",
                                          !.matched = TRUE,
                                          !.done = TRUE,
                                          !.speculationSucceded = saved.ret])
                          /\ getPathSegmentBuf' = buf1
                     ELSE /\ stack' = SetTop(stack, [Top EXCEPT
                                          !.pc = "loop",
                                          !.matched = TRUE,
                                          !.speculationSucceded = saved.ret,
                                          !.childPathName = childSeg])
                          /\ getPathSegmentBuf' = BufAfter(buf1, childSeg)
          ELSE /\ context' = c1
               /\ stack' = SetTop(stack, [Top EXCEPT !.pc = "leave"])
               /\ getPathSegmentBuf' = buf1
               /\ UNCHANGED <<searchData, listFile>>
    /\ UNCHANGED <<tree, srcValidate, phase, op, isGetLeafNodeList, isGetUuidList,
                   retval, validation, call, scoped, codecVars>>

\* one iteration of the loop over the children (cparserlib.c:646-650): the child is
\* entered when its name matches childPathName, skipped otherwise
traverseNodeChild ==
    /\ phase = "search"
    /\ Top.pc = "loop"
    /\ Top.i < VSSgetNumOfChildren(tree, Top.node)
    /\ LET child == VSSgetChild(tree, Top.node, Top.i)
       IN IF compareNodeName(VSSgetName(tree, child),
                             Deref(Top.childPathName, getPathSegmentBuf))
          THEN stack' = Append(stack, Frame(child))
          ELSE stack' = SetTop(stack, [Top EXCEPT !.i = @ + 1])
    /\ UNCHANGED <<tree, srcValidate, phase, op, context, searchData, listFile,
                   isGetLeafNodeList, isGetUuidList, getPathSegmentBuf, retval,
                   validation, call, scoped, codecVars>>

LoopOver ==
    \/ Top.pc = "leave"
    \/ Top.pc = "loop" /\ Top.i >= VSSgetNumOfChildren(tree, Top.node)

\* faulty variant: decDepth does not call getPathSegment
decDepthBuf_Untouched(buf, ctx) == buf

\* the static buffer after decDepth, which calls getPathSegment(0, context) for its
\* comparison with "*" (cparserlib.c:359)
decDepthBuf(buf, ctx) == BufAfter(buf, getPathSegment(0, ctx))

\* decDepth and return of a traverseNode call that is not the outermost one
traverseNodeLeave ==
    /\ phase = "search"
    /\ Len(stack) > 1
    /\ LoopOver
    /\ LET caller == stack[Len(stack) - 1]
       IN /\ context' = decDepth(Top.speculationSucceded, context)
          /\ getPathSegmentBuf' = decDepthBuf(getPathSegmentBuf, context)
          /\ stack' = SetTop(SubSeq(stack, 1, Len(stack) - 1),
                             [caller EXCEPT
                                 !.speculationSucceded = @ + Top.speculationSucceded,
                                 !.i = @ + 1])
    /\ UNCHANGED <<tree, srcValidate, phase, op, searchData, listFile, isGetLeafNodeList,
                   isGetUuidList, retval, validation, call, scoped, codecVars>>

\* decDepth and return of the outermost traverseNode, and the rest of the entry point
\* that called it
SearchReturn ==
    /\ phase = "search"
    /\ Len(stack) = 1
    /\ LoopOver
    /\ LET c1 == decDepth(Top.speculationSucceded, context)
       IN /\ context' = c1
          /\ getPathSegmentBuf' = decDepthBuf(getPathSegmentBuf, context)
          /\ retval' = c1.numOfMatches
          /\ validation' = IF op = "VSSSearchNodes" THEN c1.maxValidation ELSE validation
          /\ listFile' = IF op = "VSSSearchNodes" THEN listFile ELSE listFile \o sListEnd
    /\ stack' = <<>>
    /\ phase' = "returned"
    /\ UNCHANGED <<tree, srcValidate, op, searchData, isGetLeafNodeList, isGetUuidList,
                   call, scoped, codecVars>>

\* the driver has read the results and prompts for the next command
NextCommand ==
    /\ phase = "returned"
    /\ phase' = "idle"
    /\ op' = "none"
    /\ context' = NoContext
    /\ searchData' = <<>>
    /\ listFile' = <<>>
    /\ retval' = 0
    /\ validation' = 0
    /\ call' = NoCall
    /\ UNCHANGED <<tree, srcValidate, stack, isGetLeafNodeList, isGetUuidList,
                   getPathSegmentBuf, scoped, codecVars>>

Next ==
    \/ VSSSearchNodes
    \/ VSSGetLeafNodesList
    \/ VSSGetUuidList
    \/ traverseNodeEnter
    \/ traverseNodeChild
    \/ traverseNodeLeave
    \/ SearchReturn
    \/ NextCommand

Spec == Init /\ [][Next]_vars

\* the same driver passing an exclusion list with every search
SpecScope == InitScope /\ [][Next]_vars

\* the same driver on files whose nodes carry validate strings
SpecVal == InitVal /\ [][Next]_vars

\* VSSWriteTree(vspecfile, rootNode), the 'w' command; when the file cannot be
\* opened it prints a message and returns, and it returns nothing in either case
VSSWriteTree ==
    /\ phase = "idle"
    /\ treeFile' = IF canOpen.write THEN traverseAndWriteNode(tree, 1) ELSE treeFile
    /\ phase' = "written"
    /\ op' = "VSSWriteTree"
    /\ UNCHANGED <<tree, srcValidate, context, stack, searchData, listFile,
                   isGetLeafNodeList, isGetUuidList, getPathSegmentBuf, retval, validation,
                   call, scoped, readBack, canOpen, toolCalls, other, alone, meta, native>>

\* VSSReadTree of the file that was written; 0 is returned when it cannot be opened
VSSReadTree ==
    /\ phase = "written"
    /\ IF canOpen.read
       THEN /\ \E uninit \in Uninits :
                  readBack' = traverseAndReadNode(treeFile, 1, 0, <<>>, uninit).nodes
            /\ retval' = 1
            /\ phase' = "reread"
       ELSE /\ readBack' = <<>>
            /\ retval' = 0
            /\ phase' = "noTree"
    /\ op' = "VSSReadTree"
    /\ UNCHANGED <<tree, srcValidate, context, stack, searchData, listFile,
                   isGetLeafNodeList, isGetUuidList, getPathSegmentBuf, validation,
                   call, scoped, treeFile, canOpen, toolCalls, other, alone, meta, native>>

NextCodec ==
    \/ VSSWriteTree
    \/ VSSReadTree

\* a tree is written to its file and the file is read again
SpecCodec == InitCodec /\ [][NextCodec]_vars

----------------------------------------------------------------------------
(* Files with allowed lists *)

MaxEnums == 2      \* elements of a generated allowed list

\* the sixteen digits of a length, "0123456789ABCDEF"
HexDigits == <<48, 49, 50, 51, 52, 53, 54, 55, 56, 57, 65, 66, 67, 68, 69, 70>>

\* the block of an allowed list in a file, "XXenum1XXenum2...": every element after
\* the two digits of its length
RECURSIVE EnumBlock(_)
EnumBlock(list) ==
    IF list = <<>> THEN <<>>
    ELSE <<HexDigits[(Len(Head(list)) \div 16) + 1], HexDigits[(Len(Head(list)) % 16) + 1]>>
         \o Head(list) \o EnumBlock(Tail(list))

\* elements of 1, 2, 3, 15, 16 and 63 bytes (63 is the longest an enum_t holds)
EnumElements ==
    {sLowerA, <<98, 98>>, <<99, 99, 99>>, Filler(15), Filler(16),
     Filler(EnumElementLen - 1)}

EnumLists ==
    SeqsUpTo(EnumElements, MaxEnums) \cup {<<sLowerA, <<98, 98>>, <<99, 99, 99>>>>}

\* a leaf with the allowed list
FileEnums(list) ==
    FileNode(sSpeed, sActuator, sUuid, sDescr, sString, sEmpty, sEmpty, sEmpty,
             EnumBlock(list), sEmpty, sEmpty, 0)

\* the tree is the result of VSSReadTree on a file with an allowed list
InitEnum ==
    /\ \E list \in EnumLists : treeFile = FileEnums(list)
    /\ \E uninit \in Uninits : tree = traverseAndReadNode(treeFile, 1, 0, <<>>, uninit).nodes
    /\ srcValidate = <<>>
    /\ scoped = FALSE
    /\ canOpen = [read |-> TRUE, write |-> TRUE]
    /\ Idle

\* the tree is written to its file (the list is packed) and the file is read again
\* (the list is unpacked)
SpecEnum == InitEnum /\ [][NextCodec]_vars

----------------------------------------------------------------------------
(* The first VSSReadTree of the driver, on any file *)

\* validate strings of a file: the two the parser knows, with and without
\* "+consent", none, one it does not know, and two around the size of validate[50]
ReadValidateStrings ==
    ValidateStrings \cup {sXyz, Filler(ValidateBufLen - 1), Filler(ValidateBufLen)}

FileLeafValidate(name, validate) ==
    FileNode(name, sSensor, sUuid, sDescr, sFloat, sEmpty, sEmpty, sEmpty, sEmpty, sEmpty,
             validate, 0)

\* a branch of two leaves, the first with the validate string v
ValidateInputs ==
    {[bytes |-> FileBranch(sVehicle, 2) \o FileLeafValidate(sSpeed, v)
                \o FileLeafValidate(sDoor, sEmpty),
      vs |-> <<sEmpty, v, sEmpty>>] : v \in ReadValidateStrings}

\* a branch of a plain leaf and of a leaf with limits, a unit and a validation; a leaf
\* with an allowed list
FileTwoLeaves ==
    FileBranch(sVehicle, 2) \o FileLeafValidate(sSpeed, sEmpty)
    \o FileNode(sDoor, sAttribute, sUuid, sDescr, sUint8, sZero, sNine, sKm, sEmpty, sEmpty,
                sReadWrite, 0)
FileEnumLeaf ==
    FileNode(sSpeed, sActuator, sUuid, sDescr, sString, sEmpty, sEmpty, sEmpty, sEnumABC,
             sLowerA, sWriteOnly, 0)

\* the files that end before the last byte of f
Prefixes(f) == {SubSeq(f, 1, n) : n \in 0..(Len(f) - 1)}
TruncatedFiles == Prefixes(FileTwoLeaves) \cup Prefixes(FileEnumLeaf)

\* type names and datatype names of a file: known ones and ones the parser does not
\* know ("int64" is not among the names of stringToDataType)
KindTypeNames == {sSensor, sAttribute, sXyz}
KindDataTypeNames == {sFloat, sUint8, sInt64, sXyz}

\* a branch of a node with every field and of the given type and datatype, which has
\* a child itself
FileKinds(type, dataType) ==
    FileBranch(sVehicle, 1)
    \o FileNode(sSpeed, type, sUuid, sDescr, dataType, sZero, sNine, sKm, sEnumABC, sLowerA,
                sReadWrite, 1)
    \o FileLeafValidate(sDoor, sWriteOnly)

KindFiles == {FileKinds(t, d) : t \in KindTypeNames, d \in KindDataTypeNames}

ReadInputs ==
    ValidateInputs
    \cup {[bytes |-> b, vs |-> <<>>] : b \in TruncatedFiles \cup CodecFiles \cup KindFiles}

InitRead ==
    /\ \E f \in ReadInputs :
        /\ treeFile = f.bytes
        /\ srcValidate = f.vs
    /\ tree = <<>>
    /\ scoped = FALSE
    /\ canOpen \in {[read |-> r, write |-> TRUE] : r \in BOOLEAN}
    /\ phase = "start"
    /\ op = "none"
    /\ context = NoContext
    /\ stack = <<>>
    /\ searchData = <<>>
    /\ listFile = <<>>
    /\ isGetLeafNodeList = FALSE
    /\ isGetUuidList = FALSE
    /\ getPathSegmentBuf = <<>>
    /\ retval = 0
    /\ validation = 0
    /\ call = NoCall
    /\ readBack = <<>>
    /\ toolCalls = <<>>
    /\ other = NoOther
    /\ alone = NoAlone
    /\ meta = NoMeta
    /\ native = NoNative

\* rootNode = VSSReadTree(filePath) at the start of the driver; 0 is returned when
\* the file cannot be opened. Writing past the end of validate[50], and working on
\* uninitialised lengths, are undefined: the call ends abnormally, or (for
\* validate[50]) goes on as if the array were larger
VSSReadTreeStart ==
    /\ phase = "start"
    /\ IF canOpen.read
       THEN \E uninit \in Uninits :
               LET r == traverseAndReadNode(treeFile, 1, 0, <<>>, uninit)
               IN \/ /\ ~r.wild
                     /\ tree' = r.nodes
                     /\ retval' = 1
                     /\ phase' = "idle"
                  \/ /\ r.wild \/ r.overrun
                     /\ phase' = "crashed"
                     /\ UNCHANGED <<tree, retval>>
       ELSE /\ phase' = "noTree"
            /\ retval' = 0
            /\ tree' = tree
    /\ op' = "VSSReadTree"
    /\ UNCHANGED <<srcValidate, context, stack, searchData, listFile, isGetLeafNodeList,
                   isGetUuidList, getPathSegmentBuf, validation, call, scoped, codecVars>>

NextRead ==
    \/ VSSReadTreeStart
    \/ VSSWriteTree
    \/ VSSReadTree

\* a file is read, the tree is written to the file and the file is read again
SpecRead == InitRead /\ [][NextRead]_vars

----------------------------------------------------------------------------
(* The driver when no file can be opened any more *)

InitIO ==
    /\ \E f \in SearchFiles :
        /\ tree = MkTree(f.par, f.nm, f.kd, f.vs)
        /\ srcValidate = f.vs
    /\ scoped = FALSE
    /\ treeFile = <<>>
    /\ canOpen = [read |-> FALSE, write |-> FALSE]
    /\ Idle

\* VSSGetLeafNodesList and VSSGetUuidList when fopen returns NULL: the result is not
\* tested and is handed to fwrite, which is undefined. The call ends abnormally, or
\* fwrite and fclose do nothing and the traversal runs (listFile is then what was
\* handed to fwrite)
VSSGetListNoFile ==
    /\ phase = "idle"
    /\ ~canOpen.write
    /\ \E leafPaths \in BOOLEAN :
        /\ op' = IF leafPaths THEN "VSSGetLeafNodesList" ELSE "VSSGetUuidList"
        /\ isGetLeafNodeList' = (leafPaths \/ isGetLeafNodeList)
        /\ isGetUuidList' = (~leafPaths \/ isGetUuidList)
        /\ \/ /\ phase' = "crashed"
              /\ UNCHANGED <<listFile, context, call, stack, searchData>>
           \/ /\ listFile' = IF leafPaths THEN sLeafpaths ELSE sLeafuuids
              /\ context' = initContext(sVehicleStar, 1, 0, TRUE, TRUE, 0, <<>>)
              /\ call' = [searchPath |-> sVehicleStar, anyDepth |-> TRUE,
                          leafNodesOnly |-> TRUE, noScopeList |-> <<>>]
              /\ phase' = "search"
              /\ stack' = <<Frame(1)>>
              /\ searchData' = <<>>
    /\ UNCHANGED <<tree, srcValidate, getPathSegmentBuf, retval, validation, scoped,
                   codecVars>>

NextIO ==
    \/ VSSWriteTree
    \/ VSSReadTree
    \/ VSSGetListNoFile
    \/ traverseNodeEnter
    \/ traverseNodeChild
    \/ traverseNodeLeave
    \/ SearchReturn
    \/ NextCommand

SpecIO == InitIO /\ [][NextIO]_vars

----------------------------------------------------------------------------
(* Two threads that search, each in a tree of its own *)

ParFiles == {FileABCD, FileVehicle}
ParPaths ==
    {JoinDots(<<sA, sB, sC>>), JoinDots(<<sA, sStar>>), JoinDots(<<sVehicle, sCabin, sDoor>>),
     JoinDots(<<sVehicle, sStar>>), JoinDots(<<sVehicle, sSpeed>>)}

\* the tree and the locals of the running thread: what the library gets as arguments
\* and keeps on the stack of the thread
Locals ==
    [tree |-> tree, phase |-> phase, op |-> op, context |-> context, stack |-> stack,
     searchData |-> searchData, retval |-> retval, validation |-> validation,
     call |-> call]

Running == 3 - other.id

InitPar ==
    /\ \E f \in ParFiles, g \in ParFiles :
        /\ tree = TreeOf(f)
        /\ srcValidate = f.vs
        /\ other = [id |-> 2,
                    locals |-> [tree |-> TreeOf(g), phase |-> "idle", op |-> "none",
                                context |-> NoContext, stack |-> <<>>, searchData |-> <<>>,
                                retval |-> 0, validation |-> 0, call |-> NoCall]]
    /\ scoped = FALSE
    /\ treeFile = <<>>
    /\ canOpen = [read |-> TRUE, write |-> TRUE]
    /\ phase = "idle"
    /\ op = "none"
    /\ context = NoContext
    /\ stack = <<>>
    /\ searchData = <<>>
    /\ listFile = <<>>
    /\ isGetLeafNodeList = FALSE
    /\ isGetUuidList = FALSE
    /\ getPathSegmentBuf = <<>>
    /\ retval = 0
    /\ validation = 0
    /\ call = NoCall
    /\ readBack = <<>>
    /\ toolCalls = <<>>
    /\ alone = NoAlone
    /\ meta = NoMeta
    /\ native = NoNative

\* VSSSearchNodes called by the running thread; thread 1 makes the call it made in a
\* process of its own
ParSearch ==
    /\ VSSSearchNodes
    /\ call'.searchPath \in ParPaths
    /\ ~call'.anyDepth
    /\ (Running = 1 /\ alone.set) => call' = alone.call

\* the search of thread 1 has returned in a process of its own: its result is kept,
\* and the process with the two threads starts
RecordAlone ==
    /\ ~alone.set
    /\ phase = "returned"
    /\ alone' = [set |-> TRUE, call |-> call, retval |-> retval,
                 searchData |-> SubSeq(searchData, 1, retval)]
    /\ phase' = "idle"
    /\ op' = "none"
    /\ context' = NoContext
    /\ searchData' = <<>>
    /\ retval' = 0
    /\ validation' = 0
    /\ call' = NoCall
    /\ getPathSegmentBuf' = <<>>
    /\ UNCHANGED <<tree, srcValidate, stack, listFile, isGetLeafNodeList, isGetUuidList,
                   scoped, treeFile, readBack, canOpen, toolCalls, other, meta, native>>

\* the scheduler lets the other thread run: the trees and the locals are the threads'
\* own, the globals isGetLeafNodeList and isGetUuidList and the static buffer of
\* getPathSegment are the same for both
Switch ==
    /\ alone.set
    /\ other.locals.phase # "returned"
    /\ other' = [id |-> Running, locals |-> Locals]
    /\ tree' = other.locals.tree
    /\ phase' = other.locals.phase
    /\ op' = other.locals.op
    /\ context' = other.locals.context
    /\ stack' = other.locals.stack
    /\ searchData' = other.locals.searchData
    /\ retval' = other.locals.retval
    /\ validation' = other.locals.validation
    /\ call' = other.locals.call
    /\ UNCHANGED <<srcValidate, listFile, isGetLeafNodeList, isGetUuidList,
                   getPathSegmentBuf, scoped, treeFile, readBack, canOpen, toolCalls,
                   alone, meta, native>>

NextPar ==
    \/ ParSearch
    \/ traverseNodeEnter
    \/ traverseNodeChild
    \/ traverseNodeLeave
    \/ SearchReturn
    \/ RecordAlone
    \/ Switch

SpecPar == InitPar /\ [][NextPar]_vars

----------------------------------------------------------------------------
(* binarytool.c: the writer the vspec converter calls once for every node *)

MaxToolNodes == 2     \* calls of createBinaryCnode for one file

\* writeNodeData: the bytes it appends to the file. Every length is strlen cast to
\* uint8_t (the tests "> 255" that follow can never succeed); the validate string is
\* written with the length of enums, which reads past its terminator when enums is
\* the longer one: beyond is what the memory after the terminator holds
writeNodeData(name, type, uuid, descr, datatype, min, max, unit, enums, defaultEnum, validate, children, beyond) ==
    LET Field(str) == <<Len(str) % 256>> \o SubSeq(str, 1, Len(str) % 256)
        enumsLen == Len(enums) % 256
        validateLen == Len(validate) % 256
    IN Field(name) \o Field(type) \o Field(uuid) \o Field(descr) \o Field(datatype)
       \o Field(min) \o Field(max) \o Field(unit) \o Field(enums) \o Field(defaultEnum)
       \o <<validateLen>>
       \o (IF validateLen > 0
           THEN SubSeq(validate \o <<0>> \o beyond, 1, enumsLen) ELSE <<>>)
       \o <<children % 256>>

\* descriptions up to and over the 255 bytes a length byte can tell
ToolDescriptions == {sDescr, Filler(255), Filler(256), Filler(300)}
\* no allowed list, or one of 12 bytes
ToolEnums == {sEmpty, sEnumABC}
\* no validate string, one shorter than the allowed list, one as long, one longer
ToolValidates == {sEmpty, sReadWrite, Filler(Len(sEnumABC)), sReadWrite \o sConsent}
\* memory after the terminator of the validate string
Beyonds == {[i \in 1..Len(sEnumABC) |-> c] : c \in {0, 120}}

InitTool ==
    /\ tree = <<>>
    /\ srcValidate = <<>>
    /\ scoped = FALSE
    /\ treeFile = <<>>
    /\ canOpen = [read |-> TRUE, write |-> TRUE]
    /\ phase = "tool"
    /\ op = "none"
    /\ context = NoContext
    /\ stack = <<>>
    /\ searchData = <<>>
    /\ listFile = <<>>
    /\ isGetLeafNodeList = FALSE
    /\ isGetUuidList = FALSE
    /\ getPathSegmentBuf = <<>>
    /\ retval = 0
    /\ validation = 0
    /\ call = NoCall
    /\ readBack = <<>>
    /\ toolCalls = <<>>
    /\ other = NoOther
    /\ alone = NoAlone
    /\ meta = NoMeta
    /\ native = NoNative

\* createBinaryCnode(fname, ...): the file is opened for appending and the node is
\* written; the converter calls it for the nodes in pre-order (a leaf, or a branch
\* without allowed list and validate string and then its child), the file is complete
\* after the last
createBinaryCnode ==
    /\ phase = "tool"
    /\ canOpen.write
    /\ Len(toolCalls) < MaxToolNodes
    /\ \E children \in (IF Len(toolCalls) + 1 < MaxToolNodes THEN {0, 1} ELSE {0}),
          descr \in ToolDescriptions, beyond \in Beyonds :
       \E enums \in (IF children > 0 THEN {sEmpty} ELSE ToolEnums),
          validate \in (IF children > 0 THEN {sEmpty} ELSE ToolValidates) :
        LET name == IF Len(toolCalls) = 0 THEN sVehicle ELSE sSpeed
            type == IF children > 0 THEN sBranch ELSE sSensor
            datatype == IF children > 0 THEN sEmpty ELSE sFloat
            defaultEnum == IF enums = sEmpty THEN sEmpty ELSE sLowerA
        IN /\ treeFile' = treeFile \o writeNodeData(name, type, sUuid, descr, datatype,
                                                    sEmpty, sEmpty, sEmpty, enums,
                                                    defaultEnum, validate, children, beyond)
           /\ toolCalls' = Append(toolCalls,
                                  [name |-> name, type |-> type, uuid |-> sUuid,
                                   descr |-> descr, datatype |-> datatype, min |-> sEmpty,
                                   max |-> sEmpty, unit |-> sEmpty, enums |-> enums,
                                   defaultEnum |-> defaultEnum, validate |-> validate,
                                   children |-> children])
           /\ phase' = IF children = 0 THEN "start" ELSE "tool"
    /\ UNCHANGED <<tree, srcValidate, op, context, stack, searchData, listFile,
                   isGetLeafNodeList, isGetUuidList, getPathSegmentBuf, retval, validation,
                   call, scoped, readBack, canOpen, other, alone, meta, native>>

NextTool ==
    \/ createBinaryCnode
    \/ VSSReadTreeStart

\* a file is written node by node and then read by the parser
SpecTool == InitTool /\ [][NextTool]_vars

----------------------------------------------------------------------------
(* Reference reading of trees and search paths, independent of the matcher *)

RECURSIVE SplitDots(_)
SplitDots(path) ==
    LET dots == {i \in 1..Len(path) : path[i] = DOT}
    IN IF dots = {} THEN <<path>>
       ELSE LET d == CHOOSE i \in dots : \A j \in dots : i <= j
            IN <<SubSeq(path, 1, d - 1)>> \o SplitDots(SubSeq(path, d + 1, Len(path)))

RECURSIVE ChainTo(_, _, _)
\* handles from search root r down to h (h in the subtree of r)
ChainTo(t, r, h) ==
    IF h = r \/ t[h].parent = 0 THEN <<h>> ELSE Append(ChainTo(t, r, t[h].parent), h)

InSubtree(t, r, h) == ChainTo(t, r, h)[1] = r
DepthIn(t, r, h) == Len(ChainTo(t, r, h))
RelPath(t, r, h) == JoinDots([d \in 1..DepthIn(t, r, h) |-> t[ChainTo(t, r, h)[d]].name])
StrictAncestors(t, r, h) ==
    {ChainTo(t, r, h)[d] : d \in 1..(DepthIn(t, r, h) - 1)}

Satisfies(name, seg) == seg = sStar \/ seg = name

\* does the chain from r to h satisfy the first `upto` segments it reaches
ChainMatches(t, r, h, segs, upto) ==
    \A d \in 1..DepthIn(t, r, h) :
        d <= upto => Satisfies(t[ChainTo(t, r, h)[d]].name, segs[d])

\* nodes whose path satisfies every segment of the pattern
FullMatches(t, r, segs, anyDepth) ==
    {h \in DOMAIN t :
        /\ InSubtree(t, r, h)
        /\ DepthIn(t, r, h) >= Len(segs)
        /\ ChainMatches(t, r, h, segs, Len(segs))
        /\ \/ DepthIn(t, r, h) = Len(segs)
           \/ anyDepth /\ segs[Len(segs)] = sStar}

LiteralPrefixLen(segs) ==
    LET stars == {i \in 1..Len(segs) : segs[i] = sStar}
    IN IF stars = {} THEN Len(segs)
       ELSE (CHOOSE i \in stars : \A j \in stars : i <= j) - 1

\* nodes reached through the literal segments that precede the first wildcard
PrefixNodes(t, r, segs) ==
    {h \in DOMAIN t :
        /\ InSubtree(t, r, h)
        /\ DepthIn(t, r, h) <= LiteralPrefixLen(segs)
        /\ ChainMatches(t, r, h, segs, LiteralPrefixLen(segs))}

\* the segment a node at depth d is held against; <<DOT>> stands for "none"
SegAt(segs, d, anyDepth) ==
    IF d <= Len(segs) THEN segs[d]
    ELSE IF anyDepth /\ segs[Len(segs)] = sStar THEN sStar
    ELSE <<DOT>>

LeafKind(t, h) == t[h].type # BRANCH

Segs == SplitDots(call.searchPath)
Searching == phase \in {"search", "returned"} /\ op = "VSSSearchNodes"
SearchReturned == phase = "returned" /\ op = "VSSSearchNodes"
Found(i) == searchData[i].foundNodeHandles
FoundSeq == [i \in 1..retval |-> Found(i)]
Wanted(h) == LeafKind(tree, h) \/ ~call.leafNodesOnly
pAStarX == JoinDots(<<sA, sStar, sX>>)
pVehicleCabinStar == JoinDots(<<sVehicle, sCabin, sStar>>)
pAB1X == JoinDots(<<sA, sB1, sX>>)
pVehicleCabinDoor == JoinDots(<<sVehicle, sCabin, sDoor>>)
pVehicleSpeed == JoinDots(<<sVehicle, sSpeed>>)
pVehicleCabin == JoinDots(<<sVehicle, sCabin>>)

----------------------------------------------------------------------------
(* C2: as stated: when no node path satisfies every segment of the pattern,
   VSSSearchNodes returns 0 matches. *)
C2_NoMatchReturnsZero ==
    (SearchReturned /\ FullMatches(tree, 1, Segs, call.anyDepth) = {}) => retval = 0

(* C2 (amended): when no node path satisfies every segment of the pattern, every
   node recorded at or below a wildcard segment has been retracted when the search
   returns: the matches left are exactly the nodes reached through the literal
   segments before the first wildcard (leaf kinds only when leafNodesOnly); for
   the tree A.B.{C,D} and the pattern A.*.X that is 0 matches with leafNodesOnly
   and the single match A without. *)
C2_SpeculationRetracted ==
    (SearchReturned /\ FullMatches(tree, 1, Segs, call.anyDepth) = {}) =>
        /\ FoundSeq = SortedSeq({h \in PrefixNodes(tree, 1, Segs) : Wanted(h)})
        /\ (tree = TreeABCD /\ call.searchPath = pAStarX) =>
               retval = (IF call.leafNodesOnly THEN 0 ELSE 1)

\* the scenario of C2, with the entry of B written and then retracted
C2_Witness ==
    /\ SearchReturned
    /\ tree = TreeABCD
    /\ call.searchPath = pAStarX
    /\ ~call.leafNodesOnly
    /\ retval = 1
    /\ Len(searchData) = 2
    /\ searchData[2].foundNodeHandles = 2

(* C3: for the tree A{B1{X}, B2} in either sibling order, the pattern A.*.X
   (leaf nodes only) yields exactly one match, with path A.B1.X. *)
C3_ConfirmedRetained ==
    (/\ SearchReturned
     /\ tree \in {TreeB1B2, TreeB2B1}
     /\ call.searchPath = pAStarX
     /\ call.leafNodesOnly) =>
        /\ retval = 1
        /\ searchData[1].responsePaths = pAB1X

(* C4: as stated: with leafNodesOnly=false only nodes satisfying the whole pattern
   are returned; Vehicle.Cabin.* on the Vehicle tree returns exactly
   Vehicle.Cabin.Door. *)
C4_OnlyWholePattern ==
    (SearchReturned /\ ~call.leafNodesOnly) =>
        /\ \A i \in 1..retval : Found(i) \in FullMatches(tree, 1, Segs, call.anyDepth)
        /\ (tree = TreeVehicle /\ call.searchPath = pVehicleCabinStar) =>
               (retval = 1 /\ searchData[1].responsePaths = pVehicleCabinDoor)

(* C4 (amended): with leafNodesOnly=false the nodes matched by the literal prefix
   on the way down are returned too, first and in order of depth, ahead of the
   nodes below them; Vehicle.Cabin.* on the Vehicle tree returns the three paths
   Vehicle, Vehicle.Cabin, Vehicle.Cabin.Door. *)
C4_PrefixNodesReturned ==
    (SearchReturned /\ ~call.leafNodesOnly) =>
        LET pn == SortedSeq(PrefixNodes(tree, 1, Segs))
        IN /\ retval >= Len(pn)
           /\ \A j \in 1..Len(pn) :
                  /\ Found(j) = pn[j]
                  /\ searchData[j].responsePaths = RelPath(tree, 1, pn[j])
           /\ (tree = TreeVehicle /\ call.searchPath = pVehicleCabinStar) =>
                  /\ retval = 3
                  /\ [i \in 1..3 |-> searchData[i].responsePaths] =
                         <<sVehicle, pVehicleCabin, pVehicleCabinDoor>>

C4_Witness ==
    /\ SearchReturned
    /\ ~call.leafNodesOnly
    /\ tree = TreeVehicle
    /\ call.searchPath = pVehicleCabinStar
    /\ retval = 3

----------------------------------------------------------------------------
\* the text of a leaf list file holding the given paths
RECURSIVE QuotedList(_)
QuotedList(paths) ==
    IF Len(paths) = 0 THEN <<>>
    ELSE IF Len(paths) = 1 THEN <<34>> \o paths[1] \o <<34>>
    ELSE <<34>> \o paths[1] \o <<34, 44, 32>> \o QuotedList(Tail(paths))

LeafNodes(t) == SortedSeq({h \in DOMAIN t : LeafKind(t, h)})
LeafListFile(t) ==
    sLeafpaths \o QuotedList([i \in 1..Len(LeafNodes(t)) |-> RelPath(t, 1, LeafNodes(t)[i])])
    \o sListEnd
LeafListReturned == phase = "returned" /\ op = "VSSGetLeafNodesList"

(* C5: as stated: over any tree root, VSSGetLeafNodesList lists every leaf-kind
   node once, by its dotted path, in pre-order, and returns their number. *)
C5_AnyRoot ==
    LeafListReturned =>
        /\ retval = Len(LeafNodes(tree))
        /\ listFile = LeafListFile(tree)

(* What VSSGetLeafNodesList does: it searches with the fixed path Vehicle.* (any
   depth, leaves only), so for a tree whose root is named Vehicle it lists every
   leaf-kind node once, by its dotted path, in pre-order, and returns their number
   (Vehicle.Speed then Vehicle.Cabin.Door for the Vehicle tree); for any other
   root it lists nothing and returns 0. *)
LeafListVehicleRoot ==
    LeafListReturned =>
        IF tree[1].name = sVehicle
        THEN /\ retval = Len(LeafNodes(tree))
             /\ listFile = LeafListFile(tree)
             /\ tree = TreeVehicle =>
                    listFile = sLeafpaths \o <<34>> \o pVehicleSpeed \o <<34, 44, 32, 34>>
                               \o pVehicleCabinDoor \o <<34>> \o sListEnd
        ELSE /\ retval = 0
             /\ listFile = sLeafpaths \o sListEnd

LeafListOfVehicleTree ==
    /\ LeafListReturned
    /\ tree = TreeVehicle
    /\ retval = 2

----------------------------------------------------------------------------
(* C6: with leafNodesOnly=true no branch node is among the matches of
   VSSSearchNodes; every recorded node has a name satisfying the segment of its
   depth and is a leaf kind unless leafNodesOnly is false. *)
C6_LeafOnlyFilter ==
    Searching =>
        /\ \A i \in 1..context.numOfMatches :
              /\ Wanted(Found(i))
              /\ Satisfies(tree[Found(i)].name,
                           SegAt(Segs, DepthIn(tree, 1, Found(i)), call.anyDepth))
        /\ phase = "returned" => retval = context.numOfMatches

\* a leaves-only search that went through a matching branch and returned a leaf
C6_Witness ==
    /\ SearchReturned
    /\ call.leafNodesOnly
    /\ retval >= 1
    /\ \E h \in DOMAIN tree :
          /\ ~LeafKind(tree, h)
          /\ h \in StrictAncestors(tree, 1, Found(1))

(* C7: every returned entry pairs a handle with the dot-joined names from the
   search root to that node, every name on the way satisfies the segment of its
   depth, and the entries are in pre-order. *)
C7_PathsAndOrder ==
    SearchReturned =>
        /\ \A i \in 1..retval :
              /\ searchData[i].responsePaths = RelPath(tree, 1, Found(i))
              /\ \A d \in 1..DepthIn(tree, 1, Found(i)) :
                    Satisfies(tree[ChainTo(tree, 1, Found(i))[d]].name,
                              SegAt(Segs, d, call.anyDepth))
        /\ \A i, j \in 1..retval : i < j => Found(i) < Found(j)

C7_Witness ==
    /\ SearchReturned
    /\ retval >= 2
    /\ DepthIn(tree, 1, Found(1)) = 2
    /\ DepthIn(tree, 1, Found(2)) = 3

----------------------------------------------------------------------------
\* the pattern is literal segments followed by one final wildcard
TrailingStarOnly(segs) == LiteralPrefixLen(segs) = Len(segs) - 1

(* C8: with anyDepth=false maxDepth is the segment count and no node deeper than
   that is visited or recorded; with anyDepth=true maxDepth is 100 and, for a
   pattern of literal segments ending in one `*`, every node reached through the
   literal prefix, at any depth, is returned (leaf kinds only when
   leafNodesOnly). *)
C8_DepthLimit ==
    Searching =>
        /\ ~call.anyDepth =>
              /\ context.maxDepth = Len(Segs)
              /\ \A k \in 1..Len(stack) : DepthIn(tree, 1, stack[k].node) <= Len(Segs)
              /\ \A i \in 1..context.numOfMatches : DepthIn(tree, 1, Found(i)) <= Len(Segs)
        /\ (call.anyDepth /\ phase = "returned" /\ TrailingStarOnly(Segs)) =>
              /\ context.maxDepth = 100
              /\ FoundSeq = SortedSeq({h \in DOMAIN tree :
                                /\ ChainMatches(tree, 1, h, Segs, LiteralPrefixLen(Segs))
                                /\ Wanted(h)})

\* an any-depth search returned a node deeper than its pattern has segments
C8_Witness ==
    /\ SearchReturned
    /\ call.anyDepth
    /\ TrailingStarOnly(Segs)
    /\ \E i \in 1..retval : DepthIn(tree, 1, Found(i)) > Len(Segs)

----------------------------------------------------------------------------
Excluded(h) == \E i \in 1..Len(call.noScopeList) : call.noScopeList[i] = RelPath(tree, 1, h)

(* C9: no node strictly below a matched node whose path is in the noScopeList is
   visited or recorded; and a matched node is not descended into exactly when it
   has no children, is at depth maxDepth, or its path is in the list. *)
C9_ExclusionScope ==
    (phase \in {"search", "returned"}) =>
        /\ \A k \in 1..Len(stack) :
              /\ \A a \in StrictAncestors(tree, 1, stack[k].node) : ~Excluded(a)
              /\ (stack[k].matched) =>
                    (stack[k].pc = "leave" <=>
                        \/ tree[stack[k].node].children = 0
                        \/ DepthIn(tree, 1, stack[k].node) = context.maxDepth
                        \/ Excluded(stack[k].node))
        /\ op = "VSSSearchNodes" =>
              \A i \in 1..context.numOfMatches :
                  \A a \in StrictAncestors(tree, 1, Found(i)) : ~Excluded(a)

\* descent stopped at a node only because its path is in the list
C9_Witness ==
    /\ phase = "search"
    /\ \E k \in 1..Len(stack) :
          /\ stack[k].matched
          /\ stack[k].pc = "leave"
          /\ tree[stack[k].node].children > 0
          /\ DepthIn(tree, 1, stack[k].node) < context.maxDepth
          /\ Excluded(stack[k].node)
          /\ \E c \in 1..tree[stack[k].node].children :
                compareNodeName(tree[tree[stack[k].node].child[c]].name,
                                getPathSegment(1, context).str)

----------------------------------------------------------------------------
(* Validation levels as the specification defines them: none 0, write-only 1,
   read-write 2, each optionally with consent (+10) *)
LevelOf(validate) ==
    IF validate = sWriteOnly THEN 1
    ELSE IF validate = sReadWrite THEN 2
    ELSE IF validate = sWriteOnly \o sConsent THEN 11
    ELSE IF validate = sReadWrite \o sConsent THEN 12
    ELSE 0

AccessOf(level) == level % 10
ConsentOf(level) == level \div 10

\* the precedence: the stronger access of the two, with consent if either has it
Combine(a, b) ==
    LET access == IF AccessOf(a) > AccessOf(b) THEN AccessOf(a) ELSE AccessOf(b)
        consent == IF ConsentOf(a) > ConsentOf(b) THEN ConsentOf(a) ELSE ConsentOf(b)
    IN 10 * consent + access

RECURSIVE CombineAll(_)
CombineAll(levels) ==
    IF levels = {} THEN 0
    ELSE LET x == CHOOSE y \in levels : TRUE
         IN Combine(x, CombineAll(levels \ {x}))

\* nodes the search visits and whose name satisfies the segment at their depth
VisitedMatched ==
    {h \in DOMAIN tree :
        \A d \in 1..DepthIn(tree, 1, h) :
            Satisfies(tree[ChainTo(tree, 1, h)[d]].name, SegAt(Segs, d, call.anyDepth))}

(* C10: the maxValidation a search returns is the combination, under the
   precedence in which read-write dominates write-only and consent dominates no
   consent, of the validation levels of the nodes it matched; read-write (2)
   combined with write-only+consent (11) is read-write+consent (12). *)
C10_PrecedenceCombination ==
    SearchReturned =>
        validation = CombineAll({LevelOf(srcValidate[h]) : h \in VisitedMatched})

----------------------------------------------------------------------------
\* the fields of the nodes as the accessors give them: the datatype of a branch is
\* reported as -1 whatever the node_t holds
Observable(t) == [h \in DOMAIN t |-> [t[h] EXCEPT !.datatype = VSSgetDatatype(t, h)]]

\* every node that is not a branch has one of the datatypes of nodeDatatypes_t
LeavesTyped(t) ==
    \A h \in DOMAIN t : t[h].type # BRANCH => t[h].datatype \in DOMAIN DataTypeNames

(* C1: for every well-formed tree (its leaves have a datatype; min, max, unit,
   allowed list, default and validate may be empty), the tree read by VSSReadTree
   from the bytes VSSWriteTree wrote equals it field for field: name, type, uuid,
   description, datatype, min, max, unit, allowed list, default, validation, child
   count and child order. *)
C1_RoundTrip ==
    (phase = "reread" /\ LeavesTyped(tree)) => Observable(readBack) = Observable(tree)

\* a branch of two leaves was written and read again: one leaf without any optional
\* field, one with an allowed list of three elements, a default and a validation
C1_Witness ==
    /\ phase = "reread"
    /\ LeavesTyped(tree)
    /\ Len(readBack) = 3
    /\ readBack[1].type = BRANCH /\ readBack[1].child = <<2, 3>>
    /\ readBack[2].enums = 0 /\ readBack[2].min = sEmpty /\ readBack[2].validate = 0
    /\ readBack[3].enumDef = <<sLowerA, <<98, 98>>, <<99, 99, 99>>>>
    /\ readBack[3].defaultEnum = sLowerA
    /\ readBack[3].validate = 1

----------------------------------------------------------------------------
\* the first VSSReadTree of the driver could open its file, and is over
FirstReadOver ==
    op = "VSSReadTree" /\ canOpen.read /\ phase \in {"idle", "noTree", "crashed"}

(* C11: decoding of the validate string is permissive: "write-only" and
   "read-write", each optionally followed by "+consent", decode to the levels 1, 2,
   11 and 12; any other string of up to 255 bytes decodes to level 0 without an
   error, and the fields and nodes that follow it are decoded at the right offsets. *)
C11_PermissiveValidate ==
    (FirstReadOver /\ srcValidate # <<>>) =>
        /\ phase = "idle"
        /\ Len(tree) = Len(srcValidate)
        /\ \A h \in DOMAIN tree : tree[h].validate = LevelOf(srcValidate[h])
        /\ tree[1].child = <<2, 3>>
        /\ tree[3].name = sDoor /\ tree[3].children = 0

\* what the parser does: the strings with "+consent" decode to level 0
C11_ConsentDecodesToZero ==
    (FirstReadOver /\ phase = "idle" /\ srcValidate # <<>>) =>
        \A h \in DOMAIN tree :
            tree[h].validate = IF srcValidate[h] \in {sWriteOnly, sReadWrite}
                               THEN LevelOf(srcValidate[h]) ELSE 0

(* C12: a stream that ends before all the bytes a length prefix or a child count
   announces have been read is a fatal read error: VSSReadTree reports the failure
   to its caller (it returns 0) and never returns a partial tree. *)
C12_TruncationIsFatal ==
    (FirstReadOver /\ treeFile \in TruncatedFiles) =>
        /\ phase = "noTree"
        /\ retval = 0
        /\ tree = <<>>

\* what the parser does when the unread memory is zero: a root handle is returned,
\* every node the file announces exists, the ones past the end of the file empty
C12_PartialTreeReturned ==
    (FirstReadOver /\ treeFile \in TruncatedFiles) =>
        \/ phase = "crashed"
        \/ /\ phase = "idle"
           /\ retval = 1
           /\ tree # <<>>
           /\ tree[Len(tree)].children = 0

\* an entry point found that it cannot open its file, and has returned
OpenFailed ==
    \/ op = "VSSReadTree" /\ ~canOpen.read /\ phase # "start"
    \/ op \in {"VSSWriteTree", "VSSGetLeafNodesList", "VSSGetUuidList"} /\ ~canOpen.write

(* C13: when the file an operation reads from or writes to cannot be opened
   (VSSReadTree, VSSWriteTree, VSSGetLeafNodesList, VSSGetUuidList), the operation
   aborts without traversing, reading or writing anything and reports the failure
   to its caller; VSSReadTree returns the null handle 0. *)
C13_OpenFailureAborts ==
    OpenFailed =>
        /\ stack = <<>> /\ listFile = <<>> /\ treeFile = <<>> /\ readBack = <<>>
        /\ phase = "noTree"
        /\ retval = 0

\* the part VSSReadTree does: it returns 0 and reads nothing
C13_ReadTreeReturnsNull ==
    (op = "VSSReadTree" /\ ~canOpen.read /\ phase # "start") =>
        phase = "noTree" /\ retval = 0 /\ readBack = <<>>

\* the kinds the names of a file stand for
TypeNamed(name) ==
    CASE name = sSensor -> SENSOR
      [] name = sActuator -> ACTUATOR
      [] name = sAttribute -> ATTRIBUTE
      [] name = sBranch -> BRANCH
      [] OTHER -> UNKNOWN
DataTypeNamed(name) ==
    CASE name = sUint8 -> 2
      [] name = sFloat -> 8
      [] name = sString -> 10
      [] OTHER -> UNKNOWN

\* the tree of FileKinds(type, dataType), but for the type and the datatype of Speed
KindsTree ==
    LET Node(name, type, datatype, min, max, unit, enumDef, default, validate, child, parent) ==
            [name |-> name, type |-> type, uuid |-> sUuid, description |-> sDescr,
             datatype |-> datatype, min |-> min, max |-> max, unit |-> unit,
             enums |-> Len(enumDef), enumDef |-> enumDef, defaultEnum |-> default,
             validate |-> validate, children |-> Len(child), child |-> child,
             parent |-> parent]
    IN <<Node(sVehicle, BRANCH, -1, sEmpty, sEmpty, sEmpty, <<>>, sEmpty, 0, <<2>>, 0),
         Node(sSpeed, 0, 0, sZero, sNine, sKm, <<sLowerA, <<98, 98>>, <<99, 99, 99>>>>,
              sLowerA, 2, <<3>>, 1),
         Node(sDoor, SENSOR, 8, sEmpty, sEmpty, sEmpty, <<>>, sEmpty, 1, <<>>, 2)>>

(* C14: a type name or a datatype name the parser does not know does not stop the
   decoding: the node gets UNKNOWN as its type or datatype, and its other fields,
   its child count and the nodes that follow are decoded as they are when the name
   is known. *)
C14_UnknownKindDecodes ==
    \A t \in KindTypeNames, d \in KindDataTypeNames :
        (FirstReadOver /\ treeFile = FileKinds(t, d)) =>
            /\ phase = "idle"
            /\ retval = 1
            /\ tree[2].type = TypeNamed(t)
            /\ tree[2].datatype = DataTypeNamed(d)
            /\ [Observable(tree) EXCEPT ![2].type = 0, ![2].datatype = 0] = KindsTree

\* a file whose second node has a type name and a datatype name that are not known
\* was read: the node is UNKNOWN twice, its child Door was read after it
C14_Witness ==
    /\ FirstReadOver
    /\ treeFile = FileKinds(sXyz, sInt64)
    /\ phase = "idle"
    /\ tree[2].type = UNKNOWN /\ tree[2].datatype = UNKNOWN
    /\ tree[2].children = 1 /\ tree[2].child = <<3>>
    /\ tree[3].name = sDoor /\ tree[3].validate = 1

----------------------------------------------------------------------------
\* the strings of a call of createBinaryCnode
CallStrings(c) ==
    <<c.name, c.type, c.uuid, c.descr, c.datatype, c.min, c.max, c.unit, c.enums,
      c.defaultEnum, c.validate>>

HasLongField(c) == \E i \in 1..11 : Len(CallStrings(c)[i]) > 255

\* a field cut to the 255 bytes a length byte can tell: the length, then the bytes
CappedField(str) ==
    LET n == IF Len(str) > 255 THEN 255 ELSE Len(str)
    IN <<n>> \o SubSeq(str, 1, n)

RECURSIVE CappedFields(_, _)
CappedFields(strs, i) ==
    IF i > Len(strs) THEN <<>> ELSE CappedField(strs[i]) \o CappedFields(strs, i + 1)

CappedNode(c) == CappedFields(CallStrings(c), 1) \o <<c.children>>

\* the files in which every call left its node with capped fields, or nothing when
\* one of its fields is too long
RECURSIVE CappedOrRejected(_)
CappedOrRejected(calls) ==
    IF calls = <<>> THEN {<<>>}
    ELSE {CappedNode(Head(calls)) \o rest : rest \in CappedOrRejected(Tail(calls))}
         \cup (IF HasLongField(Head(calls)) THEN CappedOrRejected(Tail(calls)) ELSE {})

\* the calls whose validate string the writer does not write
NoValidateCalls == \A i \in DOMAIN toolCalls : toolCalls[i].validate = sEmpty

(* C15: a field of 255 bytes is written with the length prefix 255 and all its
   bytes; a field of 256 bytes or more is cut to 255 bytes or rejected, it is never
   written with a prefix that is its length modulo 256. *)
C15_LongFieldCapped ==
    (phase \in {"tool", "start"} /\ NoValidateCalls) =>
        treeFile \in CappedOrRejected(toolCalls)

\* what the writer does with a field of 255 bytes: prefix 255 and all the bytes
C15_Field255Written ==
    (phase \in {"tool", "start"} /\ NoValidateCalls
        /\ \A i \in DOMAIN toolCalls : ~HasLongField(toolCalls[i])) =>
        treeFile \in CappedOrRejected(toolCalls)

RECURSIVE CappedNodes(_)
CappedNodes(calls) ==
    IF calls = <<>> THEN <<>> ELSE CappedNode(Head(calls)) \o CappedNodes(Tail(calls))

(* C16: in every node writeNodeData emits, each length prefix is followed by as
   many content bytes as it tells, none when it is 0; populateNode reading the
   node recovers the fields and ends at the first byte of the next node. *)
C16_PrefixMatchesContent ==
    (\A i \in DOMAIN toolCalls : ~HasLongField(toolCalls[i])) =>
        /\ treeFile = CappedNodes(toolCalls)
        /\ FirstReadOver =>
              /\ phase = "idle"
              /\ Len(tree) = Len(toolCalls)
              /\ \A k \in DOMAIN tree :
                    /\ tree[k].name = toolCalls[k].name
                    /\ tree[k].type = TypeNamed(toolCalls[k].type)
                    /\ tree[k].uuid = toolCalls[k].uuid
                    /\ tree[k].description = toolCalls[k].descr
                    /\ tree[k].defaultEnum = toolCalls[k].defaultEnum
                    /\ tree[k].children = toolCalls[k].children

\* what the writer does when the validate string is as long as the allowed list:
\* the claim holds for these nodes
C16_HoldsForEqualLengths ==
    (\A i \in DOMAIN toolCalls :
        /\ ~HasLongField(toolCalls[i])
        /\ toolCalls[i].validate # sEmpty =>
              Len(toolCalls[i].validate) = Len(toolCalls[i].enums)) =>
        /\ treeFile = CappedNodes(toolCalls)
        /\ FirstReadOver => phase = "idle" /\ Len(tree) = Len(toolCalls)

----------------------------------------------------------------------------
\* position in a file of the length byte of the k-th field (0-based) of its first node
RECURSIVE FieldStart(_, _, _)
FieldStart(bytes, pos, k) ==
    IF k = 0 THEN pos ELSE FieldStart(bytes, pos + 1 + bytes[pos], k - 1)

\* the allowed-list field of a file of one leaf without default and validate string:
\* its length byte, and the bytes between it and the last three bytes of the file
EnumFieldLen(bytes) == bytes[FieldStart(bytes, 1, 8)]
EnumFieldContent(bytes) == SubSeq(bytes, FieldStart(bytes, 1, 8) + 1, Len(bytes) - 3)

RECURSIVE BlockLength(_)
BlockLength(list) == IF list = <<>> THEN 0 ELSE Len(Head(list)) + 2 + BlockLength(Tail(list))

(* C17: an allowed list is packed as its elements in order, each after the two
   upper-case hexadecimal digits of its length, and unpacking the block returns the
   list (["a","bb","ccc"] is "01a02bb03ccc"); the block length that is declared is
   the sum of (length + 2) over the elements; the empty list is packed as the block
   length 0 without content. *)
C17_EnumRoundTrip ==
    /\ tree[1].enumDef \in EnumLists
    /\ tree[1].enums = Len(tree[1].enumDef)
    /\ phase = "idle" => treeFile = FileEnums(tree[1].enumDef)
    /\ phase \in {"written", "reread"} =>
          /\ EnumFieldLen(treeFile) = BlockLength(tree[1].enumDef)
          /\ EnumFieldContent(treeFile) = EnumBlock(tree[1].enumDef)
          /\ Len(EnumFieldContent(treeFile)) = EnumFieldLen(treeFile)
    /\ phase = "reread" =>
          /\ readBack[1].enumDef = tree[1].enumDef
          /\ readBack[1].enums = tree[1].enums

\* the list ["a","bb","ccc"] was packed as "01a02bb03ccc" and unpacked again
C17_Witness ==
    /\ phase = "reread"
    /\ tree[1].enumDef = <<sLowerA, <<98, 98>>, <<99, 99, 99>>>>
    /\ EnumFieldLen(treeFile) = 12
    /\ EnumFieldContent(treeFile) = sEnumABC
    /\ readBack[1].enumDef = <<sLowerA, <<98, 98>>, <<99, 99, 99>>>>

\* the empty list was packed as the block length 0 and unpacked again
C17_EmptyListPacked ==
    phase = "reread" /\ tree[1].enumDef = <<>> /\ EnumFieldLen(treeFile) = 0
    /\ EnumFieldContent(treeFile) = <<>> /\ readBack[1].enums = 0

----------------------------------------------------------------------------
\* the nodes of a file in the order of the stream: name and child count of each
RECURSIVE StreamFrom(_, _)
StreamFrom(bytes, pos) ==
    IF pos > Len(bytes) THEN <<>>
    ELSE <<[name |-> SubSeq(bytes, pos + 1, pos + bytes[pos]),
            children |-> bytes[FieldStart(bytes, pos, 11)]]>>
         \o StreamFrom(bytes, FieldStart(bytes, pos, 11) + 1)

\* the handles met by a walk from h that visits a node before its children, the
\* children by increasing index
RECURSIVE PreOrder(_, _)
RECURSIVE PreOrderChildren(_, _, _)
PreOrder(t, h) == <<h>> \o PreOrderChildren(t, h, 0)
PreOrderChildren(t, h, childNo) ==
    IF VSSgetChild(t, h, childNo) = 0 THEN <<>>
    ELSE PreOrder(t, VSSgetChild(t, h, childNo)) \o PreOrderChildren(t, h, childNo + 1)

\* the places (parent, index) at which n is a child
ChildPlaces(t, n) ==
    {pl \in (DOMAIN t) \X (0..Len(t)) : VSSgetChild(t, pl[1], pl[2]) = n}

\* the first VSSReadTree has returned the tree of a file that is not cut short
CompleteTreeRead == FirstReadOver /\ phase = "idle" /\ treeFile \notin TruncatedFiles

(* C18: after VSSReadTree there is exactly one root, whose parent is 0; every
   other node is the child at exactly one index of exactly one node, which is its
   parent; every node has as many children as the count decoded for it; and the
   children are in stream order, the stream being the pre-order of the tree. *)
C18_TreeStructure ==
    CompleteTreeRead =>
        LET stream == StreamFrom(treeFile, 1)
            walk == PreOrder(tree, retval)
        IN /\ {h \in DOMAIN tree : VSSgetParent(tree, h) = 0} = {retval}
           /\ ChildPlaces(tree, retval) = {}
           /\ \A n \in DOMAIN tree \ {retval} :
                 /\ Cardinality(ChildPlaces(tree, n)) = 1
                 /\ \A pl \in ChildPlaces(tree, n) : VSSgetParent(tree, n) = pl[1]
           /\ Len(walk) = Len(stream) /\ Len(walk) = Len(tree)
           /\ \A k \in DOMAIN walk :
                 /\ walk[k] = k
                 /\ VSSgetName(tree, walk[k]) = stream[k].name
                 /\ VSSgetNumOfChildren(tree, walk[k]) = stream[k].children
                 /\ Cardinality({i \in 0..Len(tree) : VSSgetChild(tree, walk[k], i) # 0})
                       = stream[k].children

\* a branch of two leaves was read
C18_Witness ==
    /\ CompleteTreeRead
    /\ Len(tree) = 3
    /\ VSSgetNumOfChildren(tree, 1) = 2
    /\ VSSgetChild(tree, 1, 0) = 2 /\ VSSgetChild(tree, 1, 1) = 3
    /\ VSSgetParent(tree, 2) = 1 /\ VSSgetParent(tree, 3) = 1
    /\ VSSgetName(tree, 3) = sDoor

\* a branch in a branch was read: the leaf is the child of the inner branch
C18_NestedRead ==
    /\ CompleteTreeRead
    /\ Len(tree) = 3
    /\ VSSgetChild(tree, 1, 0) = 2 /\ VSSgetChild(tree, 2, 0) = 3
    /\ VSSgetParent(tree, 3) = 2 /\ VSSgetParent(tree, 2) = 1

----------------------------------------------------------------------------
(* C19: all the state of the matcher belongs to the call: two searches that run in
   two threads, each over a tree of its own, share no state that changes, and each
   returns what it returns when it runs alone. *)
C19_NoSharedState ==
    (alone.set /\ Running = 1 /\ SearchReturned) =>
        /\ retval = alone.retval
        /\ SubSeq(searchData, 1, retval) = alone.searchData

\* what holds: a search that no other thread interrupts between its call and its
\* return gives the result it gives alone
C19_SameWhenNotInterleaved ==
    (alone.set /\ Running = 1 /\ SearchReturned /\ other.locals.phase = "idle") =>
        /\ retval = alone.retval
        /\ SubSeq(searchData, 1, retval) = alone.searchData

----------------------------------------------------------------------------
(* The command 'm' of the driver: metadata of a subtree (testparser.c:171-195) *)

MaxDepth == 3      \* largest subtree depth typed at the prompt

\* getTypeName (testparser.c:24-39)
getTypeName(type) ==
    CASE type = SENSOR -> "SENSOR"
      [] type = ACTUATOR -> "ACTUATOR"
      [] type = ATTRIBUTE -> "ATTRIBUTE"
      [] type = BRANCH -> "BRANCH"
      [] OTHER -> "unknown"

\* the loop for (int i = ... ; i < depth ; i++) strcat(subTreeRootName, ".*")
RECURSIVE strcatStars(_, _, _)
strcatStars(name, i, depth) ==
    IF i < depth THEN strcatStars(name \o <<DOT, STAR>>, i + 1, depth) ELSE name

\* faulty variant: the loop starts at 0, one ".*" per level of depth
subTreeRootName_FromZero(name, depth) == strcatStars(name, 0, depth)

\* subTreeRootName after strcpy and the loop, which starts at i = 1
subTreeRootName(name, depth) == strcatStars(name, 1, depth)

\* trees and paths typed at the prompt "Path to subtree node:"
MetaFiles == SearchFiles
MetaPaths ==
    {JoinDots(q) : q \in {<<sA>>, <<sA, sB>>, <<sA, sStar>>, <<sA, sB1>>, <<sVehicle>>,
                          <<sVehicle, sCabin>>, <<sVehicle, sStar>>, <<sVehicle, sSpeed>>}}
MetaDepths == 0..MaxDepth

InitMeta == InitWith(MetaFiles, FALSE)

\* case 'm' up to the call of traverseNode of its first VSSSearchNodes
MetaFirst ==
    /\ phase = "idle"
    /\ meta.stage \in {"none", "done"}
    /\ \E subTreePath \in MetaPaths, depth \in MetaDepths :
        /\ context' = initContext(subTreePath, 1, MAXFOUNDNODES, FALSE, FALSE, 0, <<>>)
        /\ call' = [searchPath |-> subTreePath, anyDepth |-> FALSE,
                    leafNodesOnly |-> FALSE, noScopeList |-> <<>>]
        /\ meta' = [stage |-> "first", subTreePath |-> subTreePath, depth |-> depth,
                    foundResponses |-> 0, firstFound |-> <<>>, subtreeNode |-> 0,
                    subTreeRootName |-> sEmpty, out |-> <<>>]
    /\ isGetLeafNodeList' = FALSE
    /\ isGetUuidList' = FALSE
    /\ op' = "VSSSearchNodes"
    /\ phase' = "search"
    /\ stack' = <<Frame(1)>>
    /\ searchData' = <<>>
    /\ listFile' = <<>>
    /\ UNCHANGED <<tree, srcValidate, getPathSegmentBuf, retval, validation, scoped,
                   treeFile, readBack, canOpen, toolCalls, other, alone, native>>

\* the second VSSSearchNodes of case 'm', from subtreeNode, up to its call of traverseNode
MetaResearch(subtreeNode) ==
    LET name == subTreeRootName(VSSgetName(tree, subtreeNode), meta.depth)
    IN /\ context' = initContext(name, subtreeNode, MAXFOUNDNODES, FALSE, FALSE, 0, <<>>)
       /\ call' = [searchPath |-> name, anyDepth |-> FALSE, leafNodesOnly |-> FALSE,
                   noScopeList |-> <<>>]
       /\ meta' = [meta EXCEPT
              !.stage = "second",
              !.foundResponses = retval,
              !.firstFound = [i \in 1..retval |-> searchData[i].foundNodeHandles],
              !.subtreeNode = subtreeNode,
              !.subTreeRootName = name]
       /\ isGetLeafNodeList' = FALSE
       /\ isGetUuidList' = FALSE
       /\ phase' = "search"
       /\ stack' = <<Frame(subtreeNode)>>
       /\ UNCHANGED <<tree, srcValidate, op, searchData, listFile, getPathSegmentBuf,
                      retval, validation, scoped, treeFile, readBack, canOpen, toolCalls,
                      other, alone, native>>

\* case 'm' after its first search: subtreeNode is read from searchData[foundResponses-1].
\* With no match that is the element before the array, whose value is indeterminate:
\* the address of some node, or one that cannot be read
MetaSecond ==
    /\ phase = "returned"
    /\ meta.stage = "first"
    /\ \/ /\ retval > 0
          /\ MetaResearch(searchData[retval].foundNodeHandles)
       \/ /\ retval = 0
          /\ \E garbage \in DOMAIN tree : MetaResearch(garbage)
       \/ /\ retval = 0
          /\ phase' = "crashed"
          /\ meta' = [meta EXCEPT !.stage = "done"]
          /\ UNCHANGED <<tree, srcValidate, op, context, stack, searchData, listFile,
                         isGetLeafNodeList, isGetUuidList, getPathSegmentBuf, retval,
                         validation, call, scoped, treeFile, readBack, canOpen, toolCalls,
                         other, alone, native>>

\* case 'm' after its second search: the three lines printed for every match, and back
\* to the prompt
MetaPrint ==
    /\ phase = "returned"
    /\ meta.stage = "second"
    /\ meta' = [meta EXCEPT
           !.stage = "done",
           !.out = [i \in 1..retval |->
                      [type |-> getTypeName(VSSgetType(tree, searchData[i].foundNodeHandles)),
                       path |-> searchData[i].responsePaths,
                       validation |-> VSSgetValidation(tree, searchData[i].foundNodeHandles)]]]
    /\ phase' = "idle"
    /\ op' = "none"
    /\ context' = NoContext
    /\ searchData' = <<>>
    /\ retval' = 0
    /\ validation' = 0
    /\ call' = NoCall
    /\ UNCHANGED <<tree, srcValidate, stack, listFile, isGetLeafNodeList, isGetUuidList,
                   getPathSegmentBuf, scoped, treeFile, readBack, canOpen, toolCalls,
                   other, alone, native>>

NextMeta ==
    \/ MetaFirst
    \/ traverseNodeEnter
    \/ traverseNodeChild
    \/ traverseNodeLeave
    \/ SearchReturn
    \/ MetaSecond
    \/ MetaPrint

SpecMeta == InitMeta /\ [][NextMeta]_vars

\* is there a node exactly k levels below node n
RECURSIVE Reaches(_, _, _)
Reaches(t, n, k) ==
    IF k <= 0 THEN TRUE
    ELSE \E c \in 0..(VSSgetNumOfChildren(t, n) - 1) : Reaches(t, VSSgetChild(t, n, c), k - 1)

\* node n and the nodes at most k levels below it that lie on a path of k levels,
\* each with its path from n
RECURSIVE SubtreeEntries(_, _, _, _)
SubtreeEntries(t, n, path, k) ==
    {<<n, path>>} \cup
    (IF k <= 0 THEN {}
     ELSE UNION {SubtreeEntries(t, VSSgetChild(t, n, c),
                                path \o <<DOT>> \o VSSgetName(t, VSSgetChild(t, n, c)), k - 1)
                 : c \in {d \in 0..(VSSgetNumOfChildren(t, n) - 1) :
                             Reaches(t, VSSgetChild(t, n, d), k - 1)}})

MetaLine(t, e) ==
    [type |-> getTypeName(VSSgetType(t, e[1])), path |-> e[2],
     validation |-> VSSgetValidation(t, e[1])]

Range(s) == {s[i] : i \in DOMAIN s}

MetaDone == meta.stage = "done" /\ phase = "idle"

\* n times ".*"
DotStars(n) == [i \in 1..(2 * n) |-> IF i % 2 = 1 THEN DOT ELSE STAR]

\* the lines of node n and of the nodes below it on the paths of k levels
MetaLines(t, n, k) ==
    {MetaLine(t, e) : e \in SubtreeEntries(t, n, VSSgetName(t, n), k)}

\* the second search of the command 'm' has been started from a node
Researched == meta.stage \in {"second", "done"} /\ meta.subtreeNode # 0

\* C20 (as stated): the command 'm' resolves subTreePath to one node, searches again
\* from it with its name followed by depth segments "*", and prints the type, the path
\* and the validation of the nodes that the pattern matches, depth levels down
C20_DepthWildcards ==
    Researched =>
        /\ \A h \in DOMAIN tree : PathOf(tree, h) = meta.subTreePath => meta.subtreeNode = h
        /\ meta.subTreeRootName =
               VSSgetName(tree, meta.subtreeNode) \o DotStars(meta.depth)
        /\ MetaDone => Range(meta.out) = MetaLines(tree, meta.subtreeNode, meta.depth)

\* C20 (amended): the command 'm' takes the last match of the search of subTreePath from
\* the root, which is the node of that path when there is one, searches again from it
\* with its name followed by depth - 1 segments "*" (none when depth is 1 or less), and
\* prints one line of type, path from that node and validation for the node itself and
\* for every node below it that lies on a path of depth - 1 levels
C20_SubtreeMetadata ==
    Researched =>
        /\ meta.foundResponses > 0 =>
               meta.subtreeNode = meta.firstFound[meta.foundResponses]
        /\ \A h \in DOMAIN tree : PathOf(tree, h) = meta.subTreePath => meta.subtreeNode = h
        /\ meta.subTreeRootName =
               VSSgetName(tree, meta.subtreeNode) \o
               DotStars(IF meta.depth > 1 THEN meta.depth - 1 ELSE 0)
        /\ MetaDone =>
               /\ Range(meta.out) = MetaLines(tree, meta.subtreeNode, meta.depth - 1)
               /\ Len(meta.out) = Cardinality(Range(meta.out))

\* the metadata of Vehicle.Cabin with depth 2 is printed: Cabin and Cabin.Door
C20_Witness ==
    /\ MetaDone
    /\ tree = TreeVehicle
    /\ meta.subTreePath = JoinDots(<<sVehicle, sCabin>>)
    /\ meta.depth = 2
    /\ meta.subTreeRootName = JoinDots(<<sCabin, sStar>>)
    /\ [i \in 1..Len(meta.out) |-> meta.out[i].path] = <<sCabin, JoinDots(<<sCabin, sDoor>>)>>

\* a path that matches nothing: the command ends abnormally, or goes on from any node
C20_NoMatch ==
    /\ meta.stage = "done"
    /\ phase = "crashed"
    /\ meta.subTreePath = sVehicle
    /\ VSSgetName(tree, 1) = sA

\* with a path of one wildcard the last match is taken, not a single one
C20_LastOfSeveral ==
    /\ Researched
    /\ meta.foundResponses > 1
    /\ meta.subTreePath = JoinDots(<<sVehicle, sStar>>)

----------------------------------------------------------------------------
\* the text of a uuid list: {"path", "uuid"} for every element, separated by ", "
RECURSIVE UuidPairs(_, _, _)
UuidPairs(t, nodes, i) ==
    IF i > Len(nodes) THEN <<>>
    ELSE (IF i = 1 THEN <<123, 34>> ELSE <<44, 32, 123, 34>>)
         \o RelPath(t, 1, nodes[i]) \o <<34, 44, 32, 34>> \o VSSgetUUID(t, nodes[i])
         \o <<34, 125>> \o UuidPairs(t, nodes, i + 1)

UuidListFile(t) == sLeafuuids \o UuidPairs(t, LeafNodes(t), 1) \o sListEnd
UuidListReturned == phase = "returned" /\ op = "VSSGetUuidList"

(* C21: the output of a traversal is chosen by the operation that runs, whatever was
   called before: over a tree whose root is named Vehicle, VSSGetUuidList writes one
   pair of path and uuid per leaf, VSSGetLeafNodesList one quoted path per leaf, and
   VSSSearchNodes writes nothing to a list and collects its matches in searchData. *)
C21_ModeByOperation ==
    /\ (UuidListReturned /\ tree[1].name = sVehicle) =>
           /\ retval = Len(LeafNodes(tree))
           /\ listFile = UuidListFile(tree)
    /\ (LeafListReturned /\ tree[1].name = sVehicle) =>
           /\ retval = Len(LeafNodes(tree))
           /\ listFile = LeafListFile(tree)
    /\ SearchReturned =>
           /\ listFile = <<>>
           /\ Len(searchData) >= retval

\* VSSGetUuidList writes the pairs as long as VSSGetLeafNodesList has not been called
\* since the last VSSSearchNodes; after it, it writes the quoted paths of a leaf list
\* under the header of the uuid list
C21_UuidListAfterLeafList ==
    (UuidListReturned /\ tree[1].name = sVehicle) =>
        /\ retval = Len(LeafNodes(tree))
        /\ listFile = IF isGetLeafNodeList
                      THEN sLeafuuids \o SubSeq(LeafListFile(tree), Len(sLeafpaths) + 1,
                                                Len(LeafListFile(tree)))
                      ELSE UuidListFile(tree)

\* both forms of the uuid list are written
C21_StaleLeafMode ==
    /\ UuidListReturned
    /\ tree = TreeVehicle
    /\ isGetLeafNodeList
    /\ listFile # UuidListFile(tree)

----------------------------------------------------------------------------
\* no branch holds, where populateNode assigned nothing, a value that is a datatype
BranchesUntyped(t) ==
    \A h \in DOMAIN t : t[h].type = BRANCH => t[h].datatype \notin DOMAIN DataTypeNames

\* a file whose leaves name a datatype the parser knows: the datatype read does not
\* depend on what the memory of the node held before
WellFormedFile(f) ==
    \A uninit \in Uninits : LeavesTyped(traverseAndReadNode(f, 1, 0, <<>>, uninit).nodes)

(* C22: the tree read from a well-formed file (its leaves have a datatype) is written
   back by VSSWriteTree, over the file it was read from, byte for byte as it was. *)
C22_RewriteIdentical ==
    [][(phase = "idle" /\ phase' = "written" /\ WellFormedFile(treeFile)) =>
           treeFile' = treeFile]_vars

\* the file is written back as it was when the datatype of every branch, which
\* populateNode leaves unassigned, happens to be no datatype
C22_IdenticalWhenBranchesUntyped ==
    [][(phase = "idle" /\ phase' = "written" /\ WellFormedFile(treeFile)
        /\ BranchesUntyped(tree)) => treeFile' = treeFile]_vars

\* a well-formed file with a branch has been written back with a datatype for the branch
C22_BranchDatatypeWritten ==
    /\ phase = "written"
    /\ LeavesTyped(tree)
    /\ ~BranchesUntyped(tree)
    /\ Len(treeFile) > Len(FileBranch(sVehicle, 1)) + 40
    /\ SubSeq(treeFile, 1, 8) = <<7>> \o sVehicle

----------------------------------------------------------------------------
\* decDepth takes a match back: the step leaves the node on top of the stack with one
\* match less
Retraction ==
    /\ phase = "search"
    /\ op = "VSSSearchNodes"
    /\ context'.numOfMatches < context.numOfMatches

(* C23: decDepth takes back failed speculative matches only: when it decrements
   numOfMatches while node n is left, the entry that leaves the result list was
   recorded at n or below n; an entry recorded before n was entered is never removed. *)
C23_RetractsOwnSubtree ==
    [][Retraction =>
           InSubtree(tree, Top.node, searchData[context.numOfMatches].foundNodeHandles)]_vars

\* when branches are recorded too (leafNodesOnly false) the entry taken back is the
\* one of the node that is left or of a node below it
C23_HoldsWhenBranchesRecorded ==
    [][(Retraction /\ ~call.leafNodesOnly) =>
           InSubtree(tree, Top.node, searchData[context.numOfMatches].foundNodeHandles)]_vars

\* the leaf X under B1 was recorded, and the search goes on with one match less
\* while it leaves the sibling B2, which recorded nothing
C23_EarlierSiblingLost ==
    /\ phase = "search"
    /\ tree = TreeB1B2
    /\ call.searchPath = pAStarX
    /\ call.leafNodesOnly
    /\ context.numOfMatches = 0
    /\ Len(searchData) = 1
    /\ Len(stack) = 1

----------------------------------------------------------------------------
(* getPathSegment and countSegments on any search path (cparserlib.c:235-274) *)

PathSegmentBufLen == 100

\* one dot more than countSegments steps over
DotsPath == [i \in 1..(CountSegmentsCap + 1) |-> DOT]

\* search paths: the empty path, up to MaxSegs segments of which some are empty or a
\* wildcard, a segment as long as getPathSegmentBuf, and a path of 101 dots
SegPaths ==
    {JoinDots(q) : q \in SeqsUpTo({sA, sVehicle, sStar, sEmpty}, MaxSegs)}
    \cup {JoinDots(<<sA, Filler(PathSegmentBufLen)>>), DotsPath}

InitSeg == InitWith({FileVehicle}, FALSE)

\* a call of getPathSegment(offset, context) at depth currentDepth of a search for
\* searchPath. The segment is copied to getPathSegmentBuf[100]: one of 100 bytes or more
\* overruns it. With the empty path strchr starts behind the terminator, and what is
\* found there is indeterminate
getPathSegmentCall ==
    /\ phase = "idle"
    /\ \E searchPath \in SegPaths, currentDepth \in 1..(MaxSegs + 1), offset \in {0, 1},
          anyDepth \in BOOLEAN :
        LET ctx == [initContext(searchPath, 1, MAXFOUNDNODES, anyDepth, FALSE, 0, <<>>)
                       EXCEPT !.currentDepth = currentDepth]
        IN /\ context' = ctx
           /\ call' = [searchPath |-> searchPath, anyDepth |-> anyDepth,
                       leafNodesOnly |-> FALSE, noScopeList |-> <<>>, offset |-> offset]
           /\ \/ /\ searchPath # <<>>
                 /\ retval' = getPathSegment(offset, ctx).str
                 /\ getPathSegmentBuf' =
                        BufAfter(getPathSegmentBuf, getPathSegment(offset, ctx))
                 /\ phase' = "returned"
              \/ /\ searchPath = <<>>
                 /\ retval' \in {sEmpty, sXyz}
                 /\ getPathSegmentBuf' = retval'
                 /\ phase' = "returned"
              \/ /\ \/ searchPath = <<>>
                    \/ /\ searchPath # <<>>
                       /\ Len(getPathSegment(offset, ctx).str) >= PathSegmentBufLen
                 /\ phase' = "crashed"
                 /\ UNCHANGED <<retval, getPathSegmentBuf>>
    /\ op' = "getPathSegment"
    /\ UNCHANGED <<tree, srcValidate, stack, searchData, listFile, isGetLeafNodeList,
                   isGetUuidList, validation, scoped, codecVars>>

\* a call of countSegments(path)
countSegmentsCall ==
    /\ phase = "idle"
    /\ \E path \in SegPaths :
        /\ call' = [searchPath |-> path, anyDepth |-> FALSE, leafNodesOnly |-> FALSE,
                    noScopeList |-> <<>>, offset |-> 0]
        /\ retval' = countSegments(path)
    /\ op' = "countSegments"
    /\ phase' = "returned"
    /\ UNCHANGED <<tree, srcValidate, context, stack, searchData, listFile,
                   isGetLeafNodeList, isGetUuidList, getPathSegmentBuf, validation,
                   scoped, codecVars>>

NextSeg ==
    \/ getPathSegmentCall
    \/ countSegmentsCall
    \/ NextCommand

SpecSeg == InitSeg /\ [][NextSeg]_vars

\* the number of segments of a path: none for the empty path
SegmentCount(path) == IF path = <<>> THEN 0 ELSE Len(SplitDots(path))

\* the segment at position p of the search of the context
SegmentAt(path, p, ctx) ==
    IF p <= SegmentCount(path) THEN SplitDots(path)[p]
    ELSE IF path # <<>> /\ path[Len(path)] = STAR /\ ctx.currentDepth < ctx.maxDepth
         THEN sStar
         ELSE sEmpty

SegmentReturned == phase \in {"returned", "crashed"} /\ op = "getPathSegment"
CountReturned == phase = "returned" /\ op = "countSegments"

(* C24: getPathSegment returns the segment at position p = currentDepth + offset of
   the search path when the path has one, "*" beyond the last segment of a path that
   ends in "*" while currentDepth is below maxDepth, and the empty string otherwise;
   countSegments returns 0 for the empty path and the number of dots plus one for any
   other path. *)
C24_PathSegments ==
    /\ SegmentReturned =>
           /\ phase = "returned"
           /\ retval = SegmentAt(call.searchPath, context.currentDepth + call.offset,
                                 context)
    /\ CountReturned => retval = SegmentCount(call.searchPath)

\* the paths on which both functions do what is said: not empty, no empty first
\* segment, every segment shorter than the buffer, at most 100 dots
PlainPath(path) ==
    /\ path # <<>>
    /\ path[1] # DOT
    /\ \A i \in DOMAIN SplitDots(path) : Len(SplitDots(path)[i]) < PathSegmentBufLen
    /\ Len(SplitDots(path)) <= CountSegmentsCap + 1

C24_HoldsOnPlainPaths ==
    PlainPath(call.searchPath) => C24_PathSegments

\* the first segment of the path ".A" is taken to be "A"
C24_LeadingDot ==
    /\ SegmentReturned
    /\ call.searchPath = <<DOT>> \o sA
    /\ context.currentDepth + call.offset = 1
    /\ retval = sA

----------------------------------------------------------------------------
(* VSSSearchNodes with a result array of maxFound elements (cparserlib.c:727-740) *)

MaxFound == 2      \* largest maxFound a caller passes

MaxFoundPaths == MetaPaths \cup ScenarioPaths

InitMaxFound == InitWith(SearchFiles, FALSE)

\* VSSSearchNodes called with an array searchData[maxFound], up to the call of
\* traverseNode(rootNode, context)
VSSSearchNodesMaxFound ==
    /\ phase = "idle"
    /\ \E searchPath \in MaxFoundPaths, maxFound \in 1..MaxFound, anyDepth \in BOOLEAN,
          leafNodesOnly \in BOOLEAN :
        /\ context' = initContext(searchPath, 1, maxFound, anyDepth, leafNodesOnly, 0, <<>>)
        /\ call' = [searchPath |-> searchPath, anyDepth |-> anyDepth,
                    leafNodesOnly |-> leafNodesOnly, noScopeList |-> <<>>]
    /\ isGetLeafNodeList' = FALSE
    /\ isGetUuidList' = FALSE
    /\ op' = "VSSSearchNodes"
    /\ phase' = "search"
    /\ stack' = <<Frame(1)>>
    /\ searchData' = <<>>
    /\ listFile' = <<>>
    /\ UNCHANGED <<tree, srcValidate, getPathSegmentBuf, retval, validation, scoped, codecVars>>

\* saveMatchingNode has written searchData[numOfMatches] behind the end of the array
\* of the caller: the process may end abnormally, or go on
WriteBehindArray ==
    /\ phase = "search"
    /\ Len(searchData) > context.maxFound
    /\ phase' = "crashed"
    /\ UNCHANGED <<tree, srcValidate, op, context, stack, searchData, listFile,
                   isGetLeafNodeList, isGetUuidList, getPathSegmentBuf, retval, validation,
                   call, scoped, codecVars>>

NextMaxFound ==
    \/ VSSSearchNodesMaxFound
    \/ traverseNodeEnter
    \/ traverseNodeChild
    \/ traverseNodeLeave
    \/ SearchReturn
    \/ WriteBehindArray
    \/ NextCommand

SpecMaxFound == InitMaxFound /\ [][NextMaxFound]_vars

SearchRunning == phase \in {"search", "returned", "crashed"} /\ op = "VSSSearchNodes"

(* C25: at every point of a search 0 <= numOfMatches <= maxFound: no entry of
   searchData is written at an index >= maxFound, and the count returned is neither
   negative nor greater than maxFound. *)
C25_WithinMaxFound ==
    SearchRunning =>
        /\ 0 <= context.numOfMatches
        /\ context.numOfMatches <= context.maxFound
        /\ Len(searchData) <= context.maxFound
        /\ phase = "returned" => (0 <= retval /\ retval <= context.maxFound)

\* the count is never negative, and stays within maxFound when the tree has no more
\* nodes than the array has elements
C25_WithinWhenTreeFits ==
    SearchRunning =>
        /\ 0 <= context.numOfMatches
        /\ phase = "returned" => 0 <= retval
        /\ Len(tree) <= context.maxFound =>
               /\ context.numOfMatches <= context.maxFound
               /\ Len(searchData) <= context.maxFound
               /\ phase # "crashed"

\* a search with maxFound = 1 has returned 2
C25_ReturnsMoreThanMaxFound ==
    /\ phase = "returned"
    /\ op = "VSSSearchNodes"
    /\ context.maxFound = 1
    /\ retval = 2

----------------------------------------------------------------------------
(* The same search without and with an exclusion list (cparserlib.c:284-296, 337-358) *)

InitPrune == InitWith(SearchFiles, TRUE)

\* VSSSearchNodes up to the call of traverseNode: first without a list, then, when
\* that search has returned and its result is kept, with the same arguments and a list
VSSSearchNodesPrune ==
    /\ phase = "idle"
    /\ \E searchPath \in MaxFoundPaths, anyDepth \in BOOLEAN, leafNodesOnly \in BOOLEAN,
          noScopeList \in NoScopeLists(tree, alone.set) :
        /\ alone.set =>
              /\ searchPath = alone.call.searchPath
              /\ anyDepth = alone.call.anyDepth
              /\ leafNodesOnly = alone.call.leafNodesOnly
        /\ context' = initContext(searchPath, 1, MAXFOUNDNODES, anyDepth, leafNodesOnly,
                                  Len(noScopeList), noScopeList)
        /\ call' = [searchPath |-> searchPath, anyDepth |-> anyDepth,
                    leafNodesOnly |-> leafNodesOnly, noScopeList |-> noScopeList]
    /\ isGetLeafNodeList' = FALSE
    /\ isGetUuidList' = FALSE
    /\ op' = "VSSSearchNodes"
    /\ phase' = "search"
    /\ stack' = <<Frame(1)>>
    /\ searchData' = <<>>
    /\ listFile' = <<>>
    /\ UNCHANGED <<tree, srcValidate, getPathSegmentBuf, retval, validation, scoped, codecVars>>

NextPrune ==
    \/ VSSSearchNodesPrune
    \/ traverseNodeEnter
    \/ traverseNodeChild
    \/ traverseNodeLeave
    \/ SearchReturn
    \/ RecordAlone

SpecPrune == InitPrune /\ [][NextPrune]_vars

\* the search with the list has returned
PrunedReturned == SearchReturned /\ alone.set

\* an entry of a node that is not strictly below an excluded path
OutsideExcluded(entry) ==
    \A a \in StrictAncestors(tree, 1, entry.foundNodeHandles) : ~Excluded(a)

(* C26: an exclusion list only prunes: the matches of a search with a noScopeList are
   the matches of the same search without the list, less the nodes strictly below an
   excluded path, in the same order. *)
C26_ScopeOnlyPrunes ==
    PrunedReturned =>
        SubSeq(searchData, 1, retval) = SelectSeq(alone.searchData, OutsideExcluded)

\* is the excluded node matched by a literal segment, or at the last level of the
\* search
ExcludedAtLiteralOrLast ==
    \A h \in DOMAIN tree :
        Excluded(h) =>
            \/ DepthIn(tree, 1, h) = context.maxDepth
            \/ /\ DepthIn(tree, 1, h) <= Len(Segs)
               /\ \A d \in 1..DepthIn(tree, 1, h) : Segs[d] # sStar

\* the list only prunes when the excluded node is reached without a wildcard, or at
\* the depth where the search ends anyway
C26_HoldsOutsideWildcards ==
    (PrunedReturned /\ ExcludedAtLiteralOrLast) =>
        SubSeq(searchData, 1, retval) = SelectSeq(alone.searchData, OutsideExcluded)

\* Vehicle.* at any depth, leaves only, with Vehicle.Cabin excluded: the leaf
\* Vehicle.Speed, which the search without the list returns, is not returned
C26_SiblingLeafLost ==
    /\ PrunedReturned
    /\ tree = TreeVehicle
    /\ call.searchPath = sVehicleStar
    /\ call.anyDepth /\ call.leafNodesOnly
    /\ call.noScopeList = <<pVehicleCabin>>
    /\ alone.retval = 2
    /\ retval = 0

----------------------------------------------------------------------------
(* The search context on trees deeper than speculativeMatches is long *)

DeepLevels == 23    \* levels of the deepest tree, more than SpecSlots + 1

sAStar == sA \o <<DOT>> \o sStar
DeepPaths == {sA, sAStar}

\* a tree of d levels with one node on each: d - 1 branches and a sensor
ChainFile(d) ==
    File([i \in 1..d |-> i - 1], [i \in 1..d |-> sA],
         [i \in 1..d |-> IF i = d THEN SENSOR ELSE BRANCH], NoValidate(d))

InitDeep == InitWith({ChainFile(d) : d \in 1..DeepLevels}, FALSE)

VSSSearchNodesDeep ==
    /\ phase = "idle"
    /\ \E searchPath \in DeepPaths, anyDepth \in BOOLEAN :
        /\ context' = initContext(searchPath, 1, MAXFOUNDNODES, anyDepth, FALSE, 0, <<>>)
        /\ call' = [searchPath |-> searchPath, anyDepth |-> anyDepth,
                    leafNodesOnly |-> FALSE, noScopeList |-> <<>>]
    /\ isGetLeafNodeList' = FALSE
    /\ isGetUuidList' = FALSE
    /\ op' = "VSSSearchNodes"
    /\ phase' = "search"
    /\ stack' = <<Frame(1)>>
    /\ searchData' = <<>>
    /\ listFile' = <<>>
    /\ UNCHANGED <<tree, srcValidate, getPathSegmentBuf, retval, validation, scoped, codecVars>>

\* speculationIndex is an index of speculativeMatches[20]
InSpeculativeMatches == phase = "search" /\ context.speculationIndex < SpecSlots

\* saveMatchingNode has incremented speculativeMatches[speculationIndex] behind the
\* end of the array (cparserlib.c:301, 307): what the search does from then on is
\* not defined. It may end abnormally, or return any count and validation
SpeculativeMatchesOverrun ==
    /\ phase = "search"
    /\ context.speculationIndex >= SpecSlots
    /\ \/ /\ phase' = "crashed"
          /\ UNCHANGED <<retval, validation>>
       \/ /\ phase' = "returned"
          /\ retval' \in 0..(Len(tree) + 1)
          /\ validation' \in 0..2
    /\ stack' = <<>>
    /\ UNCHANGED <<tree, srcValidate, op, context, searchData, listFile, isGetLeafNodeList,
                   isGetUuidList, getPathSegmentBuf, call, scoped, codecVars>>

NextDeep ==
    \/ VSSSearchNodesDeep
    \/ InSpeculativeMatches /\ traverseNodeEnter
    \/ InSpeculativeMatches /\ traverseNodeChild
    \/ InSpeculativeMatches /\ traverseNodeLeave
    \/ InSpeculativeMatches /\ SearchReturn
    \/ SpeculativeMatchesOverrun
    \/ NextCommand

SpecDeep == InitDeep /\ [][NextDeep]_vars

\* the pattern segment the node at depth k of the current path was compared with
SegmentAtDepth(k) == getPathSegment(0, [context EXCEPT !.currentDepth = k]).str

\* the nodes on the current path that were matched against a "*" segment
StarMatched == {k \in 1..Len(stack) : stack[k].matched /\ SegmentAtDepth(k) = sStar}

SearchOp == op \in {"VSSSearchNodes", "VSSGetLeafNodesList", "VSSGetUuidList"}

ContextBalanced ==
    /\ (phase = "search" /\ SearchOp) =>
          /\ context.speculationIndex = Cardinality(StarMatched) - 1
          /\ context.speculationIndex \in -1..(SpecSlots - 1)
    /\ (phase \in {"returned", "crashed"} /\ SearchOp) =>
          /\ phase = "returned"
          /\ context.currentDepth = 0
          /\ context.matchPath = <<>>
          /\ context.speculationIndex = -1

\* C27: the search context is balanced: when traverseNode returns for the root
\* currentDepth = 0, matchPath is empty and speculationIndex = -1; during the search
\* speculationIndex is the number of nodes on the current path matched against a "*"
\* segment, less one, and stays within -1..19, the indices of speculativeMatches
C27_ContextBalanced == ContextBalanced

\* what holds: the context is balanced on every tree of at most SpecSlots + 1 levels
C27_BalancedUpToDepth == Len(tree) <= SpecSlots + 1 => ContextBalanced

\* a search with a wildcard and anyDepth has matched 21 nested nodes against "*"
C27_IndexBehindArray ==
    /\ phase = "search"
    /\ call.anyDepth
    /\ context.speculationIndex = SpecSlots

----------------------------------------------------------------------------
(* The child segment name traverseNode keeps across its loop *)

\* traverseNode is about to compare a child with childPathName
AtIteration == phase = "search" /\ stack # <<>> /\ Top.pc = "loop"

\* C28: the child segment name obtained by getPathSegment(1) before the loop over
\* the children still equals the pattern segment at depth currentDepth + 1 at every
\* iteration of the loop, although the calls for earlier children overwrite the
\* static buffer it points to
C28_ChildSegmentStable ==
    AtIteration =>
        Deref(Top.childPathName, getPathSegmentBuf) = getPathSegment(1, context).str

\* a later iteration, after a call for an earlier child that has put the segment
\* of the next depth into the buffer childPathName points to
C28_Witness ==
    /\ AtIteration
    /\ Top.i >= 1
    /\ Top.i < VSSgetNumOfChildren(tree, Top.node)
    /\ Top.childPathName.isBuf
    /\ LET earlier == VSSgetChild(tree, Top.node, Top.i - 1)
           below == getPathSegment(2, context)
       IN /\ compareNodeName(VSSgetName(tree, earlier), getPathSegment(1, context).str)
          /\ VSSgetNumOfChildren(tree, earlier) > 0
          /\ context.currentDepth + 1 < context.maxDepth
          /\ below.isBuf
          /\ below.str # getPathSegment(1, context).str

----------------------------------------------------------------------------
(* The commands 'u', 'd', 'l', 'r' of the driver *)

\* the tree A{B, C{D, X}}
FileNav ==
    File(<<0, 1, 1, 3, 3>>, <<sA, sB, sC, sD, sX>>,
         <<BRANCH, SENSOR, BRANCH, SENSOR, ACTUATOR>>, NoValidate(5))

NavFiles == SearchFiles \cup {FileNav}
NavCommands == {"u", "d", "l", "r"}

\* faulty variant: 'u' selects the first child also when there is no parent
navUp_AlwaysResets(t, currentNode, currentChild) ==
    IF VSSgetParent(t, currentNode) # 0
    THEN [currentNode |-> VSSgetParent(t, currentNode), currentChild |-> 0]
    ELSE [currentNode |-> currentNode, currentChild |-> 0]

\* case 'u': to the parent, unless there is none
navUp(t, currentNode, currentChild) ==
    IF VSSgetParent(t, currentNode) # 0
    THEN [currentNode |-> VSSgetParent(t, currentNode), currentChild |-> 0]
    ELSE [currentNode |-> currentNode, currentChild |-> currentChild]

\* case 'd': to the selected child, unless there is none
navDown(t, currentNode, currentChild) ==
    IF VSSgetChild(t, currentNode, currentChild) # 0
    THEN [currentNode |-> VSSgetChild(t, currentNode, currentChild), currentChild |-> 0]
    ELSE [currentNode |-> currentNode, currentChild |-> currentChild]

\* case 'l': select the child before, unless the first is selected
navLeft(t, currentNode, currentChild) ==
    [currentNode |-> currentNode,
     currentChild |-> IF currentChild > 0 THEN currentChild - 1 ELSE currentChild]

\* case 'r': select the child after, unless the last is selected
navRight(t, currentNode, currentChild) ==
    [currentNode |-> currentNode,
     currentChild |-> IF currentChild < VSSgetNumOfChildren(t, currentNode) - 1
                      THEN currentChild + 1 ELSE currentChild]

\* showNodeData: the name printed on the line "Node child[currentChild]=", if any
shownChild(t, currentNode, currentChild) ==
    IF VSSgetNumOfChildren(t, currentNode) > 0
    THEN VSSgetName(t, VSSgetChild(t, currentNode, currentChild))
    ELSE sEmpty

\* main up to its first prompt: currentNode = rootNode, currentChild = 0
InitNav ==
    /\ \E f \in NavFiles :
        /\ tree = MkTree(f.par, f.nm, f.kd, f.vs)
        /\ srcValidate = f.vs
    /\ scoped = FALSE
    /\ treeFile = <<>>
    /\ canOpen = [read |-> TRUE, write |-> TRUE]
    /\ phase = "idle"
    /\ op = "none"
    /\ context = NoContext
    /\ stack = <<>>
    /\ searchData = <<>>
    /\ listFile = <<>>
    /\ isGetLeafNodeList = FALSE
    /\ isGetUuidList = FALSE
    /\ getPathSegmentBuf = <<>>
    /\ retval = 0
    /\ validation = 0
    /\ call = NoCall
    /\ readBack = <<>>
    /\ toolCalls = <<>>
    /\ other = NoOther
    /\ alone = NoAlone
    /\ meta = [stage |-> "nav", traverse |-> "", currentNode |-> 1, currentChild |-> 0,
               shown |-> sEmpty]
    /\ native = NoNative

\* one turn of the loop of main with one of the commands u, d, l, r
Navigate ==
    /\ phase = "idle"
    /\ meta.stage = "nav"
    /\ \E traverse \in NavCommands :
        LET to == CASE traverse = "u" -> navUp(tree, meta.currentNode, meta.currentChild)
                    [] traverse = "d" -> navDown(tree, meta.currentNode, meta.currentChild)
                    [] traverse = "l" -> navLeft(tree, meta.currentNode, meta.currentChild)
                    [] traverse = "r" -> navRight(tree, meta.currentNode, meta.currentChild)
        IN meta' = [stage |-> "nav", traverse |-> traverse,
                    currentNode |-> to.currentNode, currentChild |-> to.currentChild,
                    shown |-> shownChild(tree, to.currentNode, to.currentChild)]
    /\ UNCHANGED <<tree, srcValidate, phase, op, context, stack, searchData, listFile,
                   isGetLeafNodeList, isGetUuidList, getPathSegmentBuf, retval, validation,
                   call, scoped, treeFile, readBack, canOpen, toolCalls, other, alone, native>>

NextNav == Navigate

SpecNav == InitNav /\ [][NextNav]_vars

Position(m) == <<m.currentNode, m.currentChild>>

ValidPosition(m) ==
    /\ m.currentNode \in DOMAIN tree
    /\ \/ m.currentChild = 0
       \/ m.currentChild \in 0..(VSSgetNumOfChildren(tree, m.currentNode) - 1)

\* the command that was read has moved to another node
MovedBy(c) == meta'.traverse = c /\ meta'.currentNode # meta.currentNode

NavigatorStep ==
    /\ ValidPosition(meta')
    /\ (meta'.traverse = "u" /\ VSSgetParent(tree, meta.currentNode) = 0)
          => Position(meta') = Position(meta)
    /\ (meta'.traverse = "d" /\ VSSgetNumOfChildren(tree, meta.currentNode) = 0)
          => Position(meta') = Position(meta)
    /\ (meta'.traverse = "l" /\ meta.currentChild = 0)
          => Position(meta') = Position(meta)
    /\ (meta'.traverse = "r"
            /\ meta.currentChild = VSSgetNumOfChildren(tree, meta.currentNode) - 1)
          => Position(meta') = Position(meta)
    /\ MovedBy("u") =>
          /\ meta'.currentNode = VSSgetParent(tree, meta.currentNode)
          /\ meta'.currentChild = 0
    /\ MovedBy("d") =>
          /\ meta'.currentNode = tree[meta.currentNode].child[meta.currentChild + 1]
          /\ meta'.currentChild = 0
    /\ meta'.traverse \in {"l", "r"} => meta'.currentNode = meta.currentNode

\* C29: after any sequence of u/d/l/r commands currentNode is a node of the tree
\* and currentChild is 0 or a valid child index of currentNode; 'u' at the root, 'd'
\* at a node without children, 'l' at index 0 and 'r' at the last child leave
\* (currentNode, currentChild) unchanged; a successful 'u' or 'd' resets
\* currentChild to 0
C29_Navigator ==
    [][(meta.stage = "nav" /\ meta'.stage = "nav") => NavigatorStep]_vars

\* 'r' at the last child of a node below the root, which is not its first child
C29_Witness ==
    /\ meta.stage = "nav"
    /\ meta.traverse = "r"
    /\ meta.currentNode # 1
    /\ meta.currentChild >= 1
    /\ meta.currentChild = VSSgetNumOfChildren(tree, meta.currentNode) - 1
    /\ meta.shown = sX

----------------------------------------------------------------------------
(* The native-format parser: VSSSearchNodes and its queue of wildcard jobs *)

NativeFLOAT == 7        \* nativeCnodeDef.h:23
NativeBRANCH == 10
NativeRBRANCH == 11

MaxFoundNative == 8     \* largest maxFound a caller passes
MaxQue == 3             \* jobs left in the queue when a caller starts a search

getNumOfPathSteps(path) == Cardinality({i \in 1..Len(path) : path[i] = DOT}) + 1

\* getNodeName: the segment stepNo (from 0) of path, "" when there is none
getNodeName(stepNo, path) ==
    LET segs == SplitDots(path)
    IN IF stepNo < Len(segs) THEN segs[stepNo + 1] ELSE sEmpty

\* ptr after k more steps ptr = strchr(ptr + 1, '.'), 0 for NULL
RECURSIVE StepDots(_, _, _)
StepDots(path, ptr, k) ==
    IF k <= 0 \/ ptr = 0 THEN ptr
    ELSE StepDots(path, StrChr(path, ptr + 1, DOT), k - 1)

\* copySteps: newPath after the call
copySteps(newPath, oldPath, stepNo, stepOffset) ==
    LET ptr == StepDots(oldPath, StrChr(oldPath, 1, DOT), stepOffset + stepNo - 1)
    IN IF ptr # 0 THEN SubSeq(oldPath, 1, ptr - 1) ELSE newPath

\* the do loop of initStepToNextNode: the names from currentRoot up to the root
RECURSIVE pathFromRoot(_, _, _)
pathFromRoot(t, currentRoot, found) ==
    LET joined == VSSgetName(t, currentRoot)
                    \o (IF Len(found) # 0 THEN <<DOT>> \o found ELSE found)
    IN IF VSSgetParent(t, currentRoot) = 0 THEN joined
       ELSE pathFromRoot(t, VSSgetParent(t, currentRoot), joined)

\* initStepToNextNode: the two arrays, of which it sets entries 0..maxFound-1 and
\* leaves the others, up to entry size - 1, as they are; and the two globals it sets
initStepToNextNode(t, currentRoot, searchPath, maxFound, size, unset) ==
    LET first == pathFromRoot(t, currentRoot, sEmpty)
    IN [found |-> 0,
        paths |-> [i \in 0..(size - 1) |-> IF i < maxFound THEN first ELSE unset],
        handles |-> [i \in 0..(size - 1) |-> 0],
        stepOffset |-> getNumOfPathSteps(first) - 1,
        stepsInPath |-> getNumOfPathSteps(searchPath) - 1]

\* stepToNextNode and the loop of its wildcard branch: the value returned (0 for
\* NULL) and the arrays and *foundResponses after the call
RECURSIVE stepToNextNode(_, _, _, _, _, _)
RECURSIVE wildcardChildren(_, _, _, _, _, _, _, _)

wildcardChildren(t, ptr, i, responsePtr, stepNo, searchPath, maxFound, st) ==
    IF ~(i < VSSgetNumOfChildren(t, ptr) /\ st.found < maxFound)
    THEN [ret |-> responsePtr, st |-> st]
    ELSE LET child == VSSgetChild(t, ptr, i)
             st1 == [st EXCEPT !.paths[st.found] = @ \o <<DOT>> \o VSSgetName(t, child)]
             r == stepToNextNode(t, child, stepNo + 1, searchPath, maxFound, st1)
             n == r.st.found
             from == IF r.ret # 0 /\ r.st.handles[n - 1] # 0 THEN n - 1 ELSE n
             st2 == [r.st EXCEPT !.paths[n] =
                        copySteps(@, r.st.paths[from], stepNo + 1, st.stepOffset)]
         IN wildcardChildren(t, ptr, i + 1, IF r.ret # 0 THEN r.ret ELSE responsePtr,
                             stepNo, searchPath, maxFound, st2)

stepToNextNode(t, ptr, stepNo, searchPath, maxFound, st) ==
    IF st.found >= maxFound - 1 THEN [ret |-> 0, st |-> st]
    ELSE IF stepNo = st.stepsInPath
    THEN [ret |-> ptr, st |-> [st EXCEPT !.handles[st.found] = ptr, !.found = @ + 1]]
    ELSE LET pathNodeName == getNodeName(stepNo + 1, searchPath)
             same == {i \in 0..(VSSgetNumOfChildren(t, ptr) - 1) :
                         VSSgetName(t, VSSgetChild(t, ptr, i)) = pathNodeName}
         IN IF pathNodeName = sStar
            THEN wildcardChildren(t, ptr, 0, 0, stepNo, searchPath, maxFound, st)
            ELSE IF same = {} THEN [ret |-> 0, st |-> st]
            ELSE LET i == CHOOSE k \in same : \A j \in same : k <= j
                     st1 == [st EXCEPT !.paths[st.found] =
                                (IF Len(@) > 0 THEN @ \o <<DOT>> ELSE @) \o pathNodeName]
                 IN stepToNextNode(t, VSSgetChild(t, ptr, i), stepNo + 1, searchPath,
                                   maxFound, st1)

\* addToWildCardQue: the new entry is linked behind entry trailingWildCardQueLen,
\* or becomes the queue when the counter is 0
addToWildCardQue(que, queLen, path, rootPtr, maxFoundLeft) ==
    [que |-> SubSeq(que, 1, queLen)
                \o <<[path |-> path, rootNode |-> rootPtr, maxFoundLeft |-> maxFoundLeft]>>,
     queLen |-> queLen + 1]

\* removeFromWildCardQue: the first entry is unlinked
removeFromWildCardQue(que, queLen) ==
    [job |-> Head(que), que |-> Tail(que), queLen |-> queLen - 1]

isNativeBranch(t, h) == VSSgetType(t, h) \in {NativeBRANCH, NativeRBRANCH}

\* the for loop of trailingWildCardSearch over the matches of one job
RECURSIVE takeMatches(_, _, _, _, _)
takeMatches(t, maxFound, i, job, s) ==
    IF ~(i < job.found) \/ s.foundResponses = maxFound THEN s
    ELSE LET h == job.handles[i]
             added == addToWildCardQue(s.trailingWildCardQue, s.trailingWildCardQueLen,
                                       VSSgetName(t, h) \o <<DOT>> \o sStar, h,
                                       s.maxFoundLeft)
         IN takeMatches(t, maxFound, i + 1, job,
                IF isNativeBranch(t, h)
                THEN [s EXCEPT !.trailingWildCardQue = added.que,
                               !.trailingWildCardQueLen = added.queLen]
                ELSE [s EXCEPT !.responsePaths = Append(@, job.paths[i]),
                               !.foundNodePtrs = Append(@, h),
                               !.foundResponses = @ + 1])

\* the job in front of the queue was added by an earlier search with a larger
\* maxFound: stepToNextNode may use entries of matchingPaths that
\* initStepToNextNode has not set
jobBeyondMaxFound(s) ==
    /\ s.trailingWildCardQueLen > 0
    /\ s.trailingWildCardQue[1].maxFoundLeft > s.maxFound

\* one turn of the while loop of trailingWildCardSearch; unset is what the entries
\* of matchingPaths hold that were not set
wildCardJob(t, s, unset) ==
    LET removed == removeFromWildCardQue(s.trailingWildCardQue, s.trailingWildCardQueLen)
        jobRoot == removed.job.rootNode
        jobPath == removed.job.path
        size == IF removed.job.maxFoundLeft > s.maxFound
                THEN removed.job.maxFoundLeft ELSE s.maxFound
        job == stepToNextNode(t, jobRoot, 0, jobPath, removed.job.maxFoundLeft,
                              initStepToNextNode(t, jobRoot, jobPath, s.maxFound,
                                                 size, unset)).st
    IN takeMatches(t, s.maxFound, 0, job,
           [s EXCEPT !.trailingWildCardQue = removed.que,
                     !.trailingWildCardQueLen = removed.queLen,
                     !.maxFoundLeft = @ - job.found])

\* the condition of the while loop
jobsToDo(s) == s.trailingWildCardQueLen > 0 /\ s.foundResponses < s.maxFound

\* trailingWildCardSearch up to its loop, on the queue as the caller finds it
trailingWildCardSearchStart(que, queLen, searchPath, rootPtr, maxFound) ==
    LET added == addToWildCardQue(que, queLen, searchPath, rootPtr, maxFound)
    IN [stage |-> "jobs", searchPath |-> searchPath, rootNode |-> rootPtr,
        maxFound |-> maxFound,
        trailingWildCardQue |-> added.que, trailingWildCardQueLen |-> added.queLen,
        foundResponses |-> 0, responsePaths |-> <<>>, foundNodePtrs |-> <<>>,
        maxFoundLeft |-> maxFound]

\* the branch of VSSSearchNodes for a path that does not end in '*'
searchWithoutWildcard(t, que, queLen, searchPath, rootPtr, maxFound) ==
    LET st == stepToNextNode(t, rootPtr, 0, searchPath, maxFound,
                             initStepToNextNode(t, rootPtr, searchPath, maxFound,
                                                maxFound, sEmpty)).st
    IN [stage |-> "returned", searchPath |-> searchPath, rootNode |-> rootPtr,
        maxFound |-> maxFound,
        trailingWildCardQue |-> que, trailingWildCardQueLen |-> queLen,
        foundResponses |-> st.found,
        responsePaths |-> [i \in 1..st.found |-> st.paths[i - 1]],
        foundNodePtrs |-> [i \in 1..st.found |-> st.handles[i - 1]],
        maxFoundLeft |-> maxFound]

sY == <<121>>
sZ == <<122>>
sW == <<119>>
sAB == sA \o <<DOT>> \o sB

\* A{B{X}, C}, with C a leaf
FileNativeSmall ==
    File(<<0, 1, 2, 1>>, <<sA, sB, sX, sC>>,
         <<NativeBRANCH, NativeBRANCH, NativeFLOAT, NativeFLOAT>>, NoValidate(4))

\* A{B{X, Y, Z, W}, C{X, Y, Z, W}, D{X}}
FileNativeFan ==
    File(<<0, 1, 2, 2, 2, 2, 1, 7, 7, 7, 7, 1, 12>>,
         <<sA, sB, sX, sY, sZ, sW, sC, sX, sY, sZ, sW, sD, sX>>,
         <<NativeBRANCH, NativeBRANCH, NativeFLOAT, NativeFLOAT, NativeFLOAT, NativeFLOAT,
           NativeBRANCH, NativeFLOAT, NativeFLOAT, NativeFLOAT, NativeFLOAT, NativeRBRANCH,
           NativeFLOAT>>,
         NoValidate(13))

NativeFiles == {FileNativeSmall, FileNativeFan}
UnsetPaths == {sEmpty, sXyz}
NativePaths == {sAStar, sAB}

InitNative == InitWith(NativeFiles, FALSE)

\* VSSSearchNodes of the native parser up to the loop of trailingWildCardSearch, or
\* to its end for a path without trailing wildcard
VSSSearchNodesNative ==
    /\ phase = "idle"
    /\ native.stage \in {"none", "done"}
    /\ native.trailingWildCardQueLen <= MaxQue
    /\ \E searchPath \in NativePaths, maxFound \in 1..MaxFoundNative :
        native' = IF searchPath[Len(searchPath)] # STAR
                  THEN searchWithoutWildcard(tree, native.trailingWildCardQue,
                           native.trailingWildCardQueLen, searchPath, 1, maxFound)
                  ELSE trailingWildCardSearchStart(native.trailingWildCardQue,
                           native.trailingWildCardQueLen, searchPath, 1, maxFound)
    /\ UNCHANGED <<tree, srcValidate, phase, op, context, stack, searchData, listFile,
                   isGetLeafNodeList, isGetUuidList, getPathSegmentBuf, retval, validation,
                   call, scoped, treeFile, readBack, canOpen, toolCalls, other, alone, meta>>

\* one turn of the while loop of trailingWildCardSearch
trailingWildCardSearchJob ==
    /\ phase = "idle"
    /\ native.stage = "jobs"
    /\ jobsToDo(native)
    /\ \E unset \in UnsetPaths : native' = wildCardJob(tree, native, unset)
    /\ UNCHANGED <<tree, srcValidate, phase, op, context, stack, searchData, listFile,
                   isGetLeafNodeList, isGetUuidList, getPathSegmentBuf, retval, validation,
                   call, scoped, treeFile, readBack, canOpen, toolCalls, other, alone, meta>>

\* strcat has appended to an entry of matchingPaths that was not set: the process
\* may end abnormally
AppendToUnsetPath ==
    /\ phase = "idle"
    /\ native.stage = "jobs"
    /\ jobsToDo(native)
    /\ jobBeyondMaxFound(native)
    /\ phase' = "crashed"
    /\ UNCHANGED <<tree, srcValidate, op, context, stack, searchData, listFile,
                   isGetLeafNodeList, isGetUuidList, getPathSegmentBuf, retval, validation,
                   call, scoped, codecVars>>

\* the loop is over: trailingWildCardSearch and VSSSearchNodes return
trailingWildCardSearchReturn ==
    /\ phase = "idle"
    /\ native.stage = "jobs"
    /\ ~jobsToDo(native)
    /\ native' = [native EXCEPT !.stage = "returned"]
    /\ UNCHANGED <<tree, srcValidate, phase, op, context, stack, searchData, listFile,
                   isGetLeafNodeList, isGetUuidList, getPathSegmentBuf, retval, validation,
                   call, scoped, treeFile, readBack, canOpen, toolCalls, other, alone, meta>>

\* the caller has read the results: only the globals of the parser stay
NativeNextCall ==
    /\ phase = "idle"
    /\ native.stage = "returned"
    /\ native' = [stage |-> "done", trailingWildCardQue |-> native.trailingWildCardQue,
                  trailingWildCardQueLen |-> native.trailingWildCardQueLen]
    /\ UNCHANGED <<tree, srcValidate, phase, op, context, stack, searchData, listFile,
                   isGetLeafNodeList, isGetUuidList, getPathSegmentBuf, retval, validation,
                   call, scoped, treeFile, readBack, canOpen, toolCalls, other, alone, meta>>

NextNative ==
    \/ VSSSearchNodesNative
    \/ trailingWildCardSearchJob
    \/ AppendToUnsetPath
    \/ trailingWildCardSearchReturn
    \/ NativeNextCall

SpecNative == InitNative /\ [][NextNative]_vars

\* the whole loop of trailingWildCardSearch
RECURSIVE runJobs(_, _)
runJobs(t, s) == IF jobsToDo(s) THEN runJobs(t, wildCardJob(t, s, sEmpty)) ELSE s

\* VSSSearchNodes of the native parser in a process that has not searched before
searchAlone(t, searchPath, rootPtr, maxFound) ==
    IF searchPath[Len(searchPath)] # STAR
    THEN searchWithoutWildcard(t, <<>>, 0, searchPath, rootPtr, maxFound)
    ELSE runJobs(t, trailingWildCardSearchStart(<<>>, 0, searchPath, rootPtr, maxFound))

NativeResults(s) == <<s.foundResponses, s.responsePaths, s.foundNodePtrs>>
NativeReturned == phase = "idle" /\ native.stage = "returned"
QueueCounted == native.trailingWildCardQueLen = Len(native.trailingWildCardQue)

\* C30: the length counter of the job queue always equals the number of linked
\* entries, the queue is empty whenever VSSSearchNodes returns, also when the search
\* stopped at maxFound results, and the results of a search depend only on the
\* arguments of that call, never on jobs left by an earlier search
C30_QueueEmptyAtReturn ==
    /\ QueueCounted
    /\ NativeReturned =>
          /\ native.trailingWildCardQueLen = 0
          /\ NativeResults(native) =
                NativeResults(searchAlone(tree, native.searchPath, native.rootNode,
                                          native.maxFound))

TrailingWildcard == native.searchPath[Len(native.searchPath)] = STAR

\* what holds: the counter equals the number of entries, and the queue is empty at
\* the return of every search with a trailing wildcard that found less than
\* maxFound results
C30_EmptyBelowMaxFound ==
    /\ QueueCounted
    /\ (NativeReturned /\ TrailingWildcard /\ native.foundResponses < native.maxFound) =>
          native.trailingWildCardQueLen = 0

\* a search has returned maxFound results and left a job in the queue
C30_JobLeft ==
    /\ NativeReturned
    /\ native.foundResponses = native.maxFound
    /\ native.trailingWildCardQueLen > 0

\* a search returns the results of a job an earlier search has left
C30_ResultsOfEarlierJob ==
    /\ NativeReturned
    /\ NativeResults(native) #
          NativeResults(searchAlone(tree, native.searchPath, native.rootNode,
                                    native.maxFound))

====
